---- MODULE Spec2Model ----
(***************************************************************************)
(* Agentic RAG: the short-term memory store, the plan execution engine of  *)
(* AgenticRag.process_query and the result aggregator, as state machines.  *)
(*                                                                         *)
(* Numbers: confidences and scores are integers in thousandths, so the     *)
(* thresholds 0.7 / 0.8 / 0.5 of the code are 700 / 800 / 500.             *)
(* Texts: a query text is the sequence of its whitespace-separated words;  *)
(* the empty sequence is a text without any word ("" or only blanks).      *)
(***************************************************************************)
EXTENDS Integers, Sequences, FiniteSets, TLC

\* ------------------------------------------------------------------ bounds
MaxEntries == 3      \* store calls per behaviour (fresh MemoryEntry ids)
MaxTime == 2         \* clock readings 0..MaxTime
MaxDocs == 1         \* document ids 1..MaxDocs
MaxAccess == 1       \* retrieve hits per entry

\* ------------------------------------------------------- program constants
HitThreshold == 700          \* short_term.py:95   highest_score >= 0.7
AccessCap == 10              \* short_term.py:87   access_count / 10.0, capped

None == "None"

\* ------------------------------------------------------------ small helpers
Range(s) == {s[i] : i \in 1..Len(s)}

Max2(a, b) == IF a >= b THEN a ELSE b

Min2(a, b) == IF a <= b THEN a ELSE b

RECURSIVE SeqWithout(_, _)
\* the sequence s without the elements for which s[i].id = id
SeqWithout(s, id) ==
  IF s = <<>> THEN <<>>
  ELSE IF Head(s).id = id THEN SeqWithout(Tail(s), id)
       ELSE <<Head(s)>> \o SeqWithout(Tail(s), id)

RECURSIVE IdsWithout(_, _)
IdsWithout(s, id) ==
  IF s = <<>> THEN <<>>
  ELSE IF Head(s) = id THEN IdsWithout(Tail(s), id)
       ELSE <<Head(s)>> \o IdsWithout(Tail(s), id)

\* ------------------------------------------------------------------- queries
\* Query objects the callers create: Query.id is a fresh uuid per object, so
\* two objects may carry the same text under different ids.
Lower(w) == CASE w = "Cats" -> "cats" [] OTHER -> w

QueryText(qid) ==
  CASE qid = 1 -> <<"Cats", "dogs">>
    [] qid = 2 -> <<"Cats", "dogs">>
    [] OTHER   -> <<>>

QueryIds == 1..3

\* set(text.lower().split())
Keywords(text) == {Lower(text[i]) : i \in 1..Len(text)}

\* the document lists of the results handed to store: [], [d1], [d1, d2], ...
DocSeqs == {[i \in 1..n |-> i] : n \in 0..MaxDocs}

Confidences == {800}

\* ================================================================ core data
\* AgentType values
AgentTypes == {"memory", "search", "local_data", "cloud", "aggregator", "generative"}

\* Document(content, source, metadata): contents are sequences of characters
\* 1 and 3 have the same content; 5 is the content of 1 followed by more
\* text; 6 and 7 agree on their first 100 characters and differ in the
\* 101st; 8 and 9 agree on their first 99 characters and differ in the
\* 100th; 11, 12, ... are short and pairwise different
DocContent(i) ==
  CASE i = 1 -> <<"a", ".">>
    [] i = 2 -> <<"b">>
    [] i = 5 -> <<"a", ".", "x">>
    [] i = 6 -> [k \in 1..101 |-> IF k <= 100 THEN "x" ELSE "1"]
    [] i = 7 -> [k \in 1..101 |-> IF k <= 100 THEN "x" ELSE "2"]
    [] i = 8 -> [k \in 1..100 |-> IF k <= 99 THEN "y" ELSE "1"]
    [] i = 9 -> [k \in 1..100 |-> IF k <= 99 THEN "y" ELSE "2"]
    [] i >= 11 -> [k \in 1..(i - 9) |-> "n"]
    [] OTHER -> <<"a", ".">>

DocSource(i) ==
  CASE i = 1 -> "s1" [] i = 2 -> "s2" [] i = 3 -> "s3" [] i = 5 -> "s5"
    [] i = 6 -> "s6" [] i = 7 -> "s7" [] i = 8 -> "s8" [] i = 9 -> "s9"
    [] OTHER -> "s3"

\* metadata["relevance"], in thousandths
DocRelevance(i) ==
  CASE i = 1 -> 500 [] i = 2 -> 900 [] i >= 11 -> 100 + i [] OTHER -> 700

Doc(i) == [id |-> i, content |-> DocContent(i), source |-> DocSource(i),
           relevance |-> DocRelevance(i), is_summary |-> FALSE]

\* AgentResult(agent_type, documents, confidence, metadata)
AgentResult(t, c, docs, err) ==
  [agent_type |-> t, confidence |-> c, documents |-> docs, error |-> err,
   source_agents |-> <<>>, aggregation_strategy |-> "", document_count |-> 0]

\* the value None where an AgentResult is expected
NoneResult == AgentResult(None, 0, <<>>, "")

Take(s, n) == SubSeq(s, 1, Min2(n, Len(s)))

RECURSIVE SeqSum(_)
SeqSum(s) == IF s = <<>> THEN 0 ELSE Head(s) + SeqSum(Tail(s))

RECURSIVE Concat(_)
Concat(ss) == IF ss = <<>> THEN <<>> ELSE Head(ss) \o Concat(Tail(ss))

RECURSIVE InsertByField(_, _, _)
\* x placed behind every element whose field f is at least x[f]
InsertByField(sorted, x, f) ==
  IF sorted = <<>> THEN <<x>>
  ELSE IF Head(sorted)[f] < x[f] THEN <<x>> \o sorted
       ELSE <<Head(sorted)>> \o InsertByField(Tail(sorted), x, f)

RECURSIVE SortDescByField(_, _)
\* sorted(seq, key=..., reverse=True) and list.sort(key=..., reverse=True):
\* descending and stable
SortDescByField(seq, f) ==
  IF seq = <<>> THEN <<>>
  ELSE InsertByField(SortDescByField(SubSeq(seq, 1, Len(seq) - 1), f), seq[Len(seq)], f)

RECURSIVE FirstMaxByField(_, _)
\* max(seq, key=...): the first element with the greatest key
FirstMaxByField(seq, f) ==
  IF Len(seq) = 1 THEN seq[1]
  ELSE LET m == FirstMaxByField(SubSeq(seq, 1, Len(seq) - 1), f)
       IN IF seq[Len(seq)][f] > m[f] THEN seq[Len(seq)] ELSE m

\* PlanStep as Plan.add_step creates it
PlanStep(agent_type) == [agent_type |-> agent_type, status |-> "pending", result |-> NoneResult]

\* Plan(query_id, planner_type)
Plan(planner_type, steps) == [planner_type |-> planner_type, status |-> "created", steps |-> steps]

\* the value None where a Plan is expected
NoPlan == [planner_type |-> None, status |-> None, steps |-> <<>>]

\* RagOutput(query_id, response, documents, plan_id, confidence, metadata);
\* memory_hit and error hold the pairs of metadata with those keys
RagOutput(response, documents, plan_id, confidence, memory_hit, error) ==
  [response |-> response, documents |-> documents, plan_id |-> plan_id,
   confidence |-> confidence, metadata |-> memory_hit \cup error]

\* process_query has not returned
NoOutput == RagOutput(<<>>, <<>>, None, 0, {}, {})

\* ============================================================ ShortTermMemory
VARIABLES capacity, ttl, memory, document_store, now, nextEntry, lastCall, lru

stmVars == <<capacity, ttl, memory, document_store, now, nextEntry, lastCall, lru>>

\* AggregatorAgent.aggregate called on its own: the call's arguments and return
VARIABLES agg_results, agg_max_agents, agg_return, agg_called

aggVars == <<agg_results, agg_max_agents, agg_return, agg_called>>

\* AgenticRag.process_query: the system's configuration (agents, planners,
\* memories, max_steps), the query, the locals of the call and its position
\* (pc, step), and the history of the call (plan_log, stored, raised,
\* raised_steps)
VARIABLES agents, planners, memories, max_steps, query_text, pc, step,
          memory_result, plan, results, aggregated_result, final_result, output,
          plan_log, stored, raised, raised_steps

pqVars == <<agents, planners, memories, max_steps, query_text, pc, step,
            memory_result, plan, results, aggregated_result, final_result, output,
            plan_log, stored, raised, raised_steps>>

\* AggregatorAgent._deduplicate_documents called on its own: the call's
\* argument and return
VARIABLES dd_documents, dd_return, dd_called

dedupVars == <<dd_documents, dd_return, dd_called>>

\* a planner used on its own: its kind and configuration (pl_planner,
\* pl_max_steps), the arguments of create_plan (pl_text, pl_agents), the plan
\* the caller holds and its identity (pl_plan, pl_plan_id), the results the
\* caller has collected (pl_results), the last call (pl_op), the plan handed
\* to the last adapt_plan (pl_input) and the number of steps started and of
\* adapt_plan calls so far (pl_execs, pl_adapts)
VARIABLES pl_planner, pl_max_steps, pl_text, pl_agents, pl_plan, pl_plan_id,
          pl_results, pl_op, pl_input, pl_execs, pl_adapts

planVars == <<pl_planner, pl_max_steps, pl_text, pl_agents, pl_plan, pl_plan_id,
              pl_results, pl_op, pl_input, pl_execs, pl_adapts>>

\* LongTermMemory: the tables behind its connection (ltm) and the record of
\* the last call on it or on the MemoryAgent in front of it (lt_call)
VARIABLES ltm, lt_call

ltVars == <<ltm, lt_call>>

\* concurrent callers of one ShortTermMemory: each caller's call and the
\* statement it is at
VARIABLES callers

concVars == <<callers>>

vars == <<stmVars, aggVars, pqVars, dedupVars, planVars, ltVars, concVars>>

\* the variables of the other components
notSTM == <<aggVars, pqVars, dedupVars, planVars, ltVars, concVars>>

notAgg == <<stmVars, pqVars, dedupVars, planVars, ltVars, concVars>>

notPQ == <<stmVars, aggVars, dedupVars, planVars, ltVars, concVars>>

notDedup == <<stmVars, aggVars, pqVars, planVars, ltVars, concVars>>

notPlan == <<stmVars, aggVars, pqVars, dedupVars, ltVars, concVars>>

notLT == <<stmVars, aggVars, pqVars, dedupVars, planVars, concVars>>

\* the variables the concurrent callers leave alone
notConc == <<ttl, now, lastCall, lru, aggVars, pqVars, dedupVars, planVars, ltVars>>

Capacities == {-1, 0, 1, 2}

Ttls == {0, 1}

HeldIds(mem) == {mem[i].id : i \in 1..Len(mem)}

EntryOf(mem, id) == CHOOSE e \in Range(mem) : e.id = id

\* MemoryEntry(query_id=..., document_ids=..., relevance_score=...)
MemoryEntry(id, qid, docIds, score, t) ==
  [id |-> id, query_id |-> qid, document_ids |-> docIds, created_at |-> t,
   access_count |-> 0, relevance_score |-> score]

\* best_match = None
NoEntry == MemoryEntry(0, 0, <<>>, 0, 0)

\* MemoryEntry.update_access()
update_access(e) == [e EXCEPT !.access_count = @ + 1]

\* move_to_end left out: the entry keeps its place
move_to_end_noop(mem, id) == mem

\* OrderedDict.move_to_end(key)
move_to_end(mem, id) == SeqWithout(mem, id) \o <<EntryOf(mem, id)>>

\* every listed document dropped, cited or not
cleanup_documents_all(mem, docs, docIds) == docs \ Range(docIds)

RECURSIVE cleanup_documents(_, _, _)
\* _cleanup_documents: drop each listed document no held entry cites
cleanup_documents(mem, docs, docIds) ==
  IF docIds = <<>> THEN docs
  ELSE LET d == Head(docIds)
           is_referenced == \E e \in Range(mem) : d \in Range(e.document_ids)
       IN cleanup_documents(mem, IF ~is_referenced THEN docs \ {d} ELSE docs,
                            Tail(docIds))

\* remove(memory_id): the store after the call and the value returned
remove(mem, docs, id) ==
  IF id \in HeldIds(mem)
  THEN LET rest == SeqWithout(mem, id)
       IN [memory |-> rest,
           document_store |-> cleanup_documents(rest, docs, EntryOf(mem, id).document_ids),
           ret |-> TRUE]
  ELSE [memory |-> mem, document_store |-> docs, ret |-> FALSE]

RECURSIVE enforce_capacity_off_by_one(_, _, _)
\* the loop condition written len(self.memory) > self.capacity + 1
enforce_capacity_off_by_one(mem, docs, evicted) ==
  IF Len(mem) > capacity + 1
  THEN IF mem = <<>>
       THEN [memory |-> mem, document_store |-> docs, evicted |-> evicted, raised |-> TRUE]
       ELSE LET r == remove(mem, docs, Head(mem).id)
            IN enforce_capacity_off_by_one(r.memory, r.document_store,
                                           Append(evicted, Head(mem).id))
  ELSE [memory |-> mem, document_store |-> docs, evicted |-> evicted, raised |-> FALSE]

RECURSIVE enforce_capacity(_, _, _)
\* the while loop of store: evict the head until within capacity; on an
\* empty map with a negative capacity next(iter(...)) raises StopIteration
enforce_capacity(mem, docs, evicted) ==
  IF Len(mem) > capacity
  THEN IF mem = <<>>
       THEN [memory |-> mem, document_store |-> docs, evicted |-> evicted, raised |-> TRUE]
       ELSE LET r == remove(mem, docs, Head(mem).id)
            IN enforce_capacity(r.memory, r.document_store, Append(evicted, Head(mem).id))
  ELSE [memory |-> mem, document_store |-> docs, evicted |-> evicted, raised |-> FALSE]

Expired(e, t) == (t - e.created_at) > ttl

RECURSIVE remove_all(_, _, _)
remove_all(mem, docs, ids) ==
  IF ids = <<>> THEN [memory |-> mem, document_store |-> docs]
  ELSE LET r == remove(mem, docs, Head(ids))
       IN remove_all(r.memory, r.document_store, Tail(ids))

\* _clear_expired collecting the expired ids without removing them
clear_expired_noop(mem, docs, t) ==
  [memory |-> mem, document_store |-> docs, purged |-> <<>>]

\* _clear_expired(current_time)
clear_expired(mem, docs, t) ==
  IF ttl <= 0 THEN [memory |-> mem, document_store |-> docs, purged |-> <<>>]
  ELSE LET expired_ids == SelectSeq([i \in 1..Len(mem) |-> mem[i].id],
                                    LAMBDA id : Expired(EntryOf(mem, id), t))
           r == remove_all(mem, docs, expired_ids)
       IN [memory |-> r.memory, document_store |-> r.document_store,
           purged |-> [i \in 1..Len(expired_ids) |-> EntryOf(mem, expired_ids[i])]]

\* the text retrieve compares with: the incoming text when the ids agree
stored_query_text(e, qid) == IF e.query_id = qid THEN QueryText(qid) ELSE <<>>

\* final_score of one entry, in thousandths times the ttl (times 1 for ttl <= 0)
ScoreUnit == IF ttl > 0 THEN ttl ELSE 1

\* the score without its recency term
final_score_no_recency(e, qid, t) ==
  LET query_keywords == Keywords(QueryText(qid))
      stored_keywords == Keywords(stored_query_text(e, qid))
      common == query_keywords \cap stored_keywords
      den == Max2(Cardinality(query_keywords), Cardinality(stored_keywords))
      score == (600 * Cardinality(common) * ScoreUnit) \div den
      access_factor == 10 * Min2(AccessCap, e.access_count) * ScoreUnit
  IN score + access_factor

final_score(e, qid, t) ==
  LET query_keywords == Keywords(QueryText(qid))
      stored_keywords == Keywords(stored_query_text(e, qid))
      common == query_keywords \cap stored_keywords
      den == Max2(Cardinality(query_keywords), Cardinality(stored_keywords))
      score == (600 * Cardinality(common) * ScoreUnit) \div den
      recency_factor == IF ttl > 0 THEN 300 * (ttl - (t - e.created_at)) ELSE 300
      access_factor == 10 * Min2(AccessCap, e.access_count) * ScoreUnit
  IN score + recency_factor + access_factor

\* the entries the scoring loop does not skip
Candidate(e, qid, t) ==
  /\ ~(ttl > 0 /\ Expired(e, t))
  /\ stored_query_text(e, qid) # <<>>
  /\ Keywords(QueryText(qid)) \cap Keywords(stored_query_text(e, qid)) # {}

RECURSIVE best_match(_, _, _, _, _)
\* the scoring loop: the first entry with the strictly highest score
best_match(mem, qid, t, best, highest) ==
  IF mem = <<>> THEN [entry |-> best, score |-> highest]
  ELSE LET e == Head(mem)
       IN IF Candidate(e, qid, t) /\ final_score(e, qid, t) > highest
          THEN best_match(Tail(mem), qid, t, e, final_score(e, qid, t))
          ELSE best_match(Tail(mem), qid, t, best, highest)

\* retrieve returning None
NoResult == [agent_type |-> None, query_id |-> 0, documents |-> <<>>, confidence |-> 0,
             memory_id |-> 0, memory_age |-> 0]

NoStore == [stored |-> FALSE, query |-> 0, documents |-> <<>>]

\* the record of the last event: for a call its arguments, the value it
\* returned (result for retrieve, removed for remove) and what it did to the
\* map; "tick" when the clock advanced since the last call
NoCall == [op |-> "init", query |-> 0, documents |-> <<>>, result |-> NoResult,
           memory_id |-> 0, removed |-> FALSE, purged |-> <<>>, evicted |-> <<>>,
           prev |-> NoStore, raised |-> FALSE]

\* what the immediately preceding call stored, if it was a store
PrevStore == IF lastCall.op = "store" /\ ~lastCall.raised
             THEN [stored |-> TRUE, query |-> lastCall.query,
                   documents |-> lastCall.documents]
             ELSE NoStore

\* the four tables, empty, and the counters that stand for fresh uuids
EmptyTables ==
  [queries |-> {}, entries |-> <<>>, links |-> {}, documents |-> {}, next_entry |-> 1]

\* what is kept of a returned AgentResult: its documents, its confidence and
\* the memory entry it names; of None, NoReturn
NoReturn == [documents |-> <<>>, confidence |-> -1, memory_id |-> 0]

Returned(r) ==
  IF r = NoResult THEN NoReturn
  ELSE [documents |-> r.documents, confidence |-> r.confidence, memory_id |-> r.memory_id]

\* the record of the last call: the value it returned (result for retrieve
\* and process, removed for remove), whether the storage layer failed during
\* the call, whether the call raised, and the confidence of what short-term
\* memory answered a process call (-1: nothing)
NoLTCall ==
  [result |-> NoReturn, removed |-> FALSE, failed |-> FALSE, raised |-> FALSE,
   short_term |-> -1]

\* a long-term memory that is not in use
LTIdle ==
  /\ ltm = None
  /\ lt_call = None

\* no concurrent callers
ConcIdle == callers = None

\* no aggregate call is under way
AggIdle ==
  /\ agg_results = <<>>
  /\ agg_max_agents = 0
  /\ agg_return = None
  /\ agg_called = FALSE

\* no process_query call is under way
PQIdle ==
  /\ agents = {}
  /\ planners = <<>>
  /\ memories = <<>>
  /\ max_steps = 0
  /\ query_text = <<>>
  /\ pc = "idle"
  /\ step = 0
  /\ memory_result = None
  /\ plan = None
  /\ results = <<>>
  /\ aggregated_result = None
  /\ final_result = None
  /\ output = None
  /\ plan_log = <<>>
  /\ stored = <<>>
  /\ raised = {}
  /\ raised_steps = {}

\* no _deduplicate_documents call is under way
DedupIdle ==
  /\ dd_documents = <<>>
  /\ dd_return = <<>>
  /\ dd_called = FALSE

\* no planner is in use
PlanIdle ==
  /\ pl_planner = None
  /\ pl_max_steps = 0
  /\ pl_text = <<>>
  /\ pl_agents = {}
  /\ pl_plan = None
  /\ pl_plan_id = 0
  /\ pl_results = <<>>
  /\ pl_op = "idle"
  /\ pl_input = None
  /\ pl_execs = 0
  /\ pl_adapts = 0

\* a store that is not in use
STMIdle ==
  /\ capacity = 0
  /\ ttl = 0
  /\ memory = <<>>
  /\ document_store = {}
  /\ now = 0
  /\ nextEntry = 1
  /\ lastCall = None
  /\ lru = <<>>

InitSTM ==
  /\ capacity \in Capacities
  /\ ttl \in Ttls
  /\ memory = <<>>
  /\ document_store = {}
  /\ now = 0
  /\ nextEntry = 1
  /\ lastCall = NoCall
  /\ lru = <<>>
  /\ AggIdle
  /\ PQIdle
  /\ DedupIdle
  /\ PlanIdle
  /\ LTIdle
  /\ ConcIdle

\* time.time() advances between calls; with ttl <= 0 no branch of the store
\* reads the clock, and with no entry held no age is measured, so the clock
\* is only advanced when ttl > 0 and an entry is held
Tick ==
  /\ ttl > 0
  /\ memory # <<>>
  /\ now < MaxTime
  /\ now' = now + 1
  /\ lastCall' = [NoCall EXCEPT !.op = "tick"]
  /\ UNCHANGED <<notSTM, capacity, ttl, memory, document_store, nextEntry, lru>>

\* the documents of the result are not stored
store_documents_skipped(docs, documents) == docs

\* "Store documents first"
store_documents(docs, documents) == docs \cup Range(documents)

Store(qid, documents, confidence) ==
  /\ nextEntry <= MaxEntries
  /\ \E r \in {enforce_capacity(
                  Append(memory, MemoryEntry(nextEntry, qid, documents, confidence, now)),
                  store_documents(document_store, documents), <<>>)} :
        /\ memory' = r.memory
        /\ document_store' = r.document_store
        /\ lastCall' = [NoCall EXCEPT !.op = "store", !.query = qid, !.documents = documents,
                                      !.evicted = r.evicted,
                                      !.raised = r.raised]
        /\ lru' = SelectSeq(Append(lru, nextEntry),
                                LAMBDA id : id \notin Range(r.evicted))
  /\ nextEntry' = nextEntry + 1
  /\ UNCHANGED <<notSTM, capacity, ttl, now>>

Retrieve(qid) ==
  \E c \in {clear_expired(memory, document_store, now)} :
  \E b \in {best_match(c.memory, qid, now, NoEntry, 0)} :
  LET hit == b.entry # NoEntry /\ b.score >= HitThreshold * ScoreUnit
  IN /\ hit => b.entry.access_count < MaxAccess
     /\ document_store' = c.document_store
     /\ IF hit
        THEN LET moved == move_to_end(c.memory, b.entry.id)
                 documents == SelectSeq(b.entry.document_ids,
                                        LAMBDA d : d \in c.document_store)
             IN /\ memory' = [i \in 1..Len(moved) |->
                                IF moved[i].id = b.entry.id THEN update_access(moved[i])
                                ELSE moved[i]]
                /\ lastCall' = [NoCall EXCEPT
                      !.op = "retrieve", !.query = qid,
                      !.purged = c.purged, !.prev = PrevStore,
                      !.result = [agent_type |-> "memory", query_id |-> qid,
                               documents |-> documents,
                               confidence |-> b.score \div ScoreUnit,
                               memory_id |-> b.entry.id,
                               memory_age |-> now - b.entry.created_at]]
                /\ lru' = IdsWithout(SelectSeq(lru, LAMBDA id : id \in HeldIds(c.memory)),
                                         b.entry.id) \o <<b.entry.id>>
        ELSE /\ memory' = c.memory
             /\ lastCall' = [NoCall EXCEPT !.op = "retrieve", !.query = qid,
                                           !.purged = c.purged, !.prev = PrevStore]
             /\ lru' = SelectSeq(lru, LAMBDA id : id \in HeldIds(c.memory))
     /\ UNCHANGED <<notSTM, capacity, ttl, now, nextEntry>>

\* update(memory_entry): the caller hands back an entry object it got from
\* the store (the entry held under that id), or one that is not held
Update(id) ==
  /\ IF id \in HeldIds(memory)
     THEN LET memory_entry == EntryOf(memory, id)
              replaced == [i \in 1..Len(memory) |->
                             IF memory[i].id = id THEN memory_entry ELSE memory[i]]
          IN /\ memory' = move_to_end(replaced, id)
             /\ lru' = IdsWithout(lru, id) \o <<id>>
     ELSE UNCHANGED <<memory, lru>>
  /\ lastCall' = [NoCall EXCEPT !.op = "update"]
  /\ UNCHANGED <<notSTM, capacity, ttl, document_store, now, nextEntry>>

Remove(id) ==
  \E r \in {remove(memory, document_store, id)} :
     /\ memory' = r.memory
     /\ document_store' = r.document_store
     /\ lru' = IdsWithout(lru, id)
     /\ lastCall' = [NoCall EXCEPT !.op = "remove", !.memory_id = id, !.removed = r.ret]
     /\ UNCHANGED <<notSTM, capacity, ttl, now, nextEntry>>

Clear ==
  /\ memory' = <<>>
  /\ document_store' = {}
  /\ lru' = <<>>
  /\ lastCall' = [NoCall EXCEPT !.op = "clear"]
  /\ UNCHANGED <<notSTM, capacity, ttl, now, nextEntry>>

\* the ids update and remove are called with: the ids held, and one that is
\* not held (the id the next entry will get)
CallerIds == HeldIds(memory) \cup {nextEntry}

NextSTM ==
  \/ Tick
  \/ \E q \in QueryIds, ds \in DocSeqs, c \in Confidences : Store(q, ds, c)
  \/ \E q \in QueryIds : Retrieve(q)
  \/ \E id \in CallerIds : Update(id)
  \/ \E id \in CallerIds : Remove(id)
  \/ Clear

SpecSTM == InitSTM /\ [][NextSTM]_vars

\* ============================================================ AggregatorAgent
SignatureLen == 100          \* aggregator.py:273   doc.content[:100]
TopDocuments == 10           \* aggregator.py:201   documents[:10]
MemoryPriority == 800        \* aggregator.py:113   confidence >= 0.8

\* a signature one character shorter
signature_99(doc) == Take(doc.content, SignatureLen - 1)

\* signature = doc.content[:100]
signature_of(doc) == Take(doc.content, SignatureLen)

RECURSIVE deduplicate_from(_, _)
deduplicate_from(documents, seen_content) ==
  IF documents = <<>> THEN <<>>
  ELSE LET signature == signature_of(Head(documents))
       IN IF signature \notin seen_content
          THEN <<Head(documents)>> \o deduplicate_from(Tail(documents),
                                                       seen_content \cup {signature})
          ELSE deduplicate_from(Tail(documents), seen_content)

\* every document kept
deduplicate_documents_keep_all(documents) == documents

\* _deduplicate_documents
deduplicate_documents(documents) == deduplicate_from(documents, {})

\* the per-source merge without its limit to the top 10
aggregate_source_results_unlimited(agent_results) ==
  [documents |-> SortDescByField(
                   Concat([i \in 1..Len(agent_results) |-> agent_results[i].documents]),
                   "relevance"),
   confidence |-> FirstMaxByField(agent_results, "confidence").confidence]

\* _aggregate_search_results, _aggregate_local_data_results and
\* _aggregate_cloud_results (the three bodies are the same)
aggregate_source_results(agent_results) ==
  [documents |-> Take(SortDescByField(
                        Concat([i \in 1..Len(agent_results) |-> agent_results[i].documents]),
                        "relevance"), TopDocuments),
   confidence |-> FirstMaxByField(agent_results, "confidence").confidence]

\* _create_summary_document: only its source and its metadata are modelled,
\* the text of the summary is a fixed token
create_summary_document(documents) ==
  [id |-> 0, content |-> <<"Summary">>, source |-> "aggregator_summary",
   relevance |-> 0, is_summary |-> TRUE]

\* the greatest of the scores in place of their mean
overall_confidence_max(confidence_scores) ==
  IF confidence_scores # <<>>
  THEN FirstMaxByField([i \in 1..Len(confidence_scores) |-> [v |-> confidence_scores[i]]],
                       "v").v
  ELSE 0

\* sum(confidence_scores.values()) / len(confidence_scores), 0.0 without scores
overall_confidence(confidence_scores) ==
  IF confidence_scores # <<>>
  THEN SeqSum(confidence_scores) \div Len(confidence_scores)
  ELSE 0

\* the body of aggregate below the empty-results check
aggregate_merge(agent_results, limit) ==
  LET limited == IF Len(agent_results) > limit
                 THEN Take(SortDescByField(agent_results, "confidence"), limit)
                 ELSE agent_results
      by_type(t) == SelectSeq(limited, LAMBDA r : r.agent_type = t)
      memory_results == by_type("memory")
      memory_prioritized ==
        /\ memory_results # <<>>
        /\ FirstMaxByField(memory_results, "confidence").confidence >= MemoryPriority
      best_memory_result == FirstMaxByField(memory_results, "confidence")
      memory_documents == IF memory_prioritized THEN best_memory_result.documents ELSE <<>>
      merge(t) == memory_documents = <<>> /\ by_type(t) # <<>>
      part(t) == IF merge(t) THEN aggregate_source_results(by_type(t)).documents ELSE <<>>
      score(t) == IF merge(t) THEN <<aggregate_source_results(by_type(t)).confidence>>
                  ELSE <<>>
      name(t) == IF merge(t) THEN <<t>> ELSE <<>>
      aggregated_documents == deduplicate_documents(
          memory_documents \o part("search") \o part("local_data") \o part("cloud"))
      confidence_scores ==
          (IF memory_prioritized THEN <<best_memory_result.confidence>> ELSE <<>>)
          \o score("search") \o score("local_data") \o score("cloud")
  IN [agent_type |-> "aggregator",
      confidence |-> overall_confidence(confidence_scores),
      documents |-> IF aggregated_documents # <<>>
                    THEN <<create_summary_document(aggregated_documents)>>
                         \o aggregated_documents
                    ELSE <<>>,
      error |-> "",
      source_agents |-> (IF memory_prioritized THEN <<"memory">> ELSE <<>>)
                        \o name("search") \o name("local_data") \o name("cloud"),
      aggregation_strategy |-> IF memory_prioritized THEN "memory_prioritized"
                               ELSE "weighted_merge",
      document_count |-> Len(aggregated_documents)]

\* aggregate without its empty-results check
aggregate_unchecked(agent_results, limit) == aggregate_merge(agent_results, limit)

\* aggregate(query, results)
aggregate(agent_results, limit) ==
  IF agent_results = <<>>
  THEN AgentResult("aggregator", 0, <<>>, "No results to aggregate")
  ELSE aggregate_merge(agent_results, limit)

\* ================================================================== planning
\* query texts are sequences of characters
PQTexts ==
  { <<"H", "i">>,
    <<"W", "h", "a", "t", " ", "d", "a", "t", "a">>,
    <<"B", "e", "s", "t", " ", "c", "l", "o", "u", "d">> }

\* str.lower() on the characters the texts use
LowerChar(c) ==
  CASE c = "H" -> "h"
    [] c = "W" -> "w"
    [] c = "B" -> "b"
    [] OTHER -> c

lower(text) == [i \in 1..Len(text) |-> LowerChar(text[i])]

\* keyword in query_lower
Contains(text, keyword) ==
  \E i \in 1..(Len(text) - Len(keyword) + 1) :
     SubSeq(text, i, i + Len(keyword) - 1) = keyword

ContainsAny(text, keywords) == \E keyword \in keywords : Contains(text, keyword)

search_keywords ==
  { <<"s", "e", "a", "r", "c", "h">>,
    <<"f", "i", "n", "d">>,
    <<"l", "o", "o", "k", " ", "u", "p">>,
    <<"l", "a", "t", "e", "s", "t">>,
    <<"r", "e", "c", "e", "n", "t">>,
    <<"n", "e", "w", "s">>,
    <<"c", "u", "r", "r", "e", "n", "t">>,
    <<"u", "p", "d", "a", "t", "e">>,
    <<"i", "n", "f", "o", "r", "m", "a", "t", "i", "o", "n", " ", "a", "b", "o", "u", "t">>,
    <<"d", "a", "t", "a", " ", "o", "n">> }

local_data_keywords ==
  { <<"l", "o", "c", "a", "l">>,
    <<"f", "i", "l", "e">>,
    <<"d", "o", "c", "u", "m", "e", "n", "t">>,
    <<"i", "n", "t", "e", "r", "n", "a", "l">>,
    <<"o", "u", "r">>,
    <<"c", "o", "m", "p", "a", "n", "y">>,
    <<"d", "a", "t", "a", "s", "e", "t">>,
    <<"d", "a", "t", "a", "b", "a", "s", "e">>,
    <<"d", "a", "t", "a">>,
    <<"r", "e", "p", "o", "r", "t">>,
    <<"a", "n", "a", "l", "y", "s", "i", "s">> }

cloud_keywords ==
  { <<"c", "l", "o", "u", "d">>,
    <<"a", "w", "s">>,
    <<"a", "z", "u", "r", "e">>,
    <<"s", "3">>,
    <<"b", "u", "c", "k", "e", "t">>,
    <<"r", "e", "m", "o", "t", "e">>,
    <<"s", "e", "r", "v", "i", "c", "e">>,
    <<"a", "p", "i">>,
    <<"e", "n", "d", "p", "o", "i", "n", "t">>,
    <<"l", "a", "m", "b", "d", "a">>,
    <<"f", "u", "n", "c", "t", "i", "o", "n">>,
    <<"s", "t", "o", "r", "a", "g", "e">> }

\* _query_needs_search: the keyword loop returns True on a match and the
\* default after the loop is True as well
query_needs_search(text) ==
  IF ContainsAny(lower(text), search_keywords) THEN TRUE ELSE TRUE

query_needs_local_data(text) == ContainsAny(lower(text), local_data_keywords)

query_needs_cloud(text) == ContainsAny(lower(text), cloud_keywords)

\* the step added without looking at the condition
StepIf_unconditional(cond, agent_type) == <<PlanStep(agent_type)>>

\* plan.add_step(agent_type, ...) under an if
StepIf(cond, agent_type) == IF cond THEN <<PlanStep(agent_type)>> ELSE <<>>

\* no truncation
truncate_off(steps, step_limit) == steps

\* plan.steps = plan.steps[:self.max_steps] when there are more steps
truncate(steps, step_limit) ==
  IF Len(steps) > step_limit THEN Take(steps, step_limit) ELSE steps

\* ReActPlanner.create_plan
react_create_plan(text, available_agents, step_limit) ==
  LET gathering ==
           StepIf("memory" \in available_agents, "memory")
        \o StepIf(query_needs_search(text) /\ "search" \in available_agents, "search")
        \o StepIf(query_needs_local_data(text) /\ "local_data" \in available_agents,
                  "local_data")
        \o StepIf(query_needs_cloud(text) /\ "cloud" \in available_agents, "cloud")
      steps ==
           gathering
        \o StepIf("aggregator" \in available_agents /\ Len(gathering) > 1, "aggregator")
        \o StepIf("generative" \in available_agents, "generative")
  IN Plan("react", truncate(steps, step_limit))

\* the keyword list _analyze_query tests for each information need
need_keywords(info_need) ==
  CASE info_need = "factual" ->
         { <<"w", "h", "o">>,
           <<"w", "h", "a", "t">>,
           <<"w", "h", "e", "n">>,
           <<"w", "h", "e", "r", "e">>,
           <<"h", "o", "w">>,
           <<"w", "h", "y">> }
    [] info_need = "definition" ->
         { <<"d", "e", "f", "i", "n", "e">>,
           <<"e", "x", "p", "l", "a", "i", "n">>,
           <<"m", "e", "a", "n">>,
           <<"d", "e", "f", "i", "n", "i", "t", "i", "o", "n">> }
    [] info_need = "comparison" ->
         { <<"c", "o", "m", "p", "a", "r", "e">>,
           <<"d", "i", "f", "f", "e", "r", "e", "n", "c", "e">>,
           <<"v", "e", "r", "s", "u", "s">>,
           <<"v", "s">> }
    [] info_need = "data" ->
         { <<"d", "a", "t", "a">>,
           <<"s", "t", "a", "t", "i", "s", "t", "i", "c">>,
           <<"n", "u", "m", "b", "e", "r">>,
           <<"p", "e", "r", "c", "e", "n", "t">>,
           <<"f", "i", "g", "u", "r", "e">> }
    [] info_need = "recommendation" ->
         { <<"r", "e", "c", "o", "m", "m", "e", "n", "d">>,
           <<"s", "u", "g", "g", "e", "s", "t", "i", "o", "n">>,
           <<"b", "e", "s", "t">>,
           <<"t", "o", "p">> }
    [] OTHER -> {}

\* _analyze_query: the information needs, in the order they are tested
analyze_query(text) ==
  LET needs == <<"factual", "definition", "comparison", "data", "recommendation">>
      found == SelectSeq(needs,
                 LAMBDA n : ContainsAny(lower(text), need_keywords(n)))
  IN IF found = <<>> THEN <<"general">> ELSE found

\* agent_mapping of _map_info_need_to_agent
agent_mapping(info_need) ==
  CASE info_need = "data" -> "local_data"
    [] info_need = "recommendation" -> "generative"
    [] OTHER -> "search"

\* _map_info_need_to_agent
map_info_need_to_agent(info_need, available_agents) ==
  IF agent_mapping(info_need) \in available_agents THEN agent_mapping(info_need)
  ELSE IF info_need # "recommendation" /\ "search" \in available_agents THEN "search"
  ELSE None

\* BasePlanner.validate_plan
validate_plan(candidate, available_agents) ==
  \A i \in 1..Len(candidate.steps) : candidate.steps[i].agent_type \in available_agents

\* _create_simple_plan
create_simple_plan(available_agents) ==
  Plan("cot",    StepIf("memory" \in available_agents, "memory")
              \o StepIf("search" \in available_agents, "search")
              \o StepIf("generative" \in available_agents, "generative"))

\* ChainOfThoughtPlanner.create_plan
cot_create_plan(text, available_agents) ==
  LET query_analysis == analyze_query(text)
      mapped == [i \in 1..Len(query_analysis) |->
                   map_info_need_to_agent(query_analysis[i], available_agents)]
      gathering == Concat([i \in 1..Len(mapped) |-> StepIf(mapped[i] # None, mapped[i])])
      candidate == Plan("cot",
                   StepIf("memory" \in available_agents, "memory")
                \o gathering
                \o StepIf(Len(query_analysis) > 1 /\ "aggregator" \in available_agents,
                          "aggregator")
                \o StepIf("generative" \in available_agents, "generative"))
  IN IF ~validate_plan(candidate, available_agents)
     THEN create_simple_plan(available_agents)
     ELSE candidate

\* the copy of the steps whose status is completed, and of no other step
copy_only_completed_steps(p) ==
  LET kept == SelectSeq(p.steps, LAMBDA s : s.status = "completed")
  IN [i \in 1..Len(kept) |-> [agent_type |-> kept[i].agent_type,
                               status |-> kept[i].status,
                               result |-> kept[i].result]]

\* ChainOfThoughtPlanner.adapt_plan, sufficient-information branch: "Copy
\* completed steps" builds a new PlanStep from each step that is not pending
copy_completed_steps(p) ==
  LET kept == SelectSeq(p.steps, LAMBDA s : s.status # "pending")
  IN [i \in 1..Len(kept) |-> [agent_type |-> kept[i].agent_type,
                               status |-> kept[i].status,
                               result |-> kept[i].result]]

\* the results of one agent type, in order
results_of_type(rs, t) == SelectSeq(rs, LAMBDA r : r.agent_type = t)

\* the index that stands for Python's None
NoIndex == -1

\* the 0-based index of the first step of type t, NoIndex if there is none
\* (next((i for i, step in enumerate(steps) if ...), None))
first_index(steps, t) ==
  IF \E i \in 1..Len(steps) : steps[i].agent_type = t
  THEN (CHOOSE i \in 1..Len(steps) :
          /\ steps[i].agent_type = t
          /\ \A j \in 1..(i - 1) : steps[j].agent_type # t) - 1
  ELSE NoIndex

\* list.insert(index, step) for an index >= 0
insert(steps, index, new_step) ==
  Take(steps, index) \o <<new_step>> \o SubSeq(steps, Min2(index, Len(steps)) + 1, Len(steps))

\* the index of the search step whether or not there is a local-data step
index_or_second(a, b) == IF b # NoIndex THEN b ELSE 0

\* a or b or 0 on indices, where None and 0 are both false
index_or(a, b) ==
  IF a # NoIndex /\ a # 0 THEN a ELSE IF b # NoIndex /\ b # 0 THEN b ELSE 0

\* ReActPlanner.adapt_plan, "search returned no results": a local-data step
\* right behind the first search step
insert_local_data(steps, current_agent_types, available_agents) ==
  IF "local_data" \notin current_agent_types /\ "local_data" \in available_agents
     /\ first_index(steps, "search") # NoIndex
  THEN insert(steps, first_index(steps, "search") + 1, PlanStep("local_data"))
  ELSE steps

\* ... and a cloud step behind the local-data step, else behind the search step
insert_cloud(steps, current_agent_types, available_agents) ==
  IF "cloud" \notin current_agent_types /\ "cloud" \in available_agents
  THEN insert(steps,
              index_or(first_index(steps, "local_data"), first_index(steps, "search")) + 1,
              PlanStep("cloud"))
  ELSE steps

\* ReActPlanner.adapt_plan, "Ensure we don't exceed max steps"
truncate_adapted(steps, step_limit) ==
  IF Len(steps) > step_limit
  THEN LET completed_steps == SelectSeq(steps, LAMBDA s : s.status # "pending")
           pending_steps == SelectSeq(steps, LAMBDA s : s.status = "pending")
           remaining_slots == step_limit - Len(completed_steps)
       IN IF remaining_slots > 0
          THEN completed_steps \o Take(pending_steps, remaining_slots)
          ELSE Take(completed_steps, step_limit)
  ELSE steps

\* the memory-hit branch keeping every step that is not a gathering step,
\* whatever its status
skip_gathering_any_status(steps) ==
  SelectSeq(steps, LAMBDA s : s.agent_type \notin {"search", "local_data", "cloud"})

\* "Remove search, local data, and cloud steps", "Only keep pending steps"
skip_gathering(steps) ==
  SelectSeq(steps, LAMBDA s :
     /\ s.agent_type \notin {"search", "local_data", "cloud"}
     /\ s.status = "pending")

\* ReActPlanner.adapt_plan: the plan returned, whether it is a new Plan, and
\* the Plan passed in as the call leaves it
react_adapt_plan(p, results_so_far, available_agents, step_limit) ==
  LET memory_results == results_of_type(results_so_far, "memory")
      search_results == results_of_type(results_so_far, "search")
  IN IF memory_results # <<>> /\ memory_results[1].confidence >= 800
     THEN LET new_steps == skip_gathering(p.steps)
          IN [plan |-> Plan("react", [i \in 1..Len(new_steps) |->
                                         PlanStep(new_steps[i].agent_type)]),
              is_new |-> TRUE,
              input |-> p]
     ELSE LET current_agent_types == {p.steps[i].agent_type : i \in 1..Len(p.steps)}
              extended ==
                IF search_results # <<>> /\ search_results[1].documents = <<>>
                THEN insert_cloud(
                       insert_local_data(p.steps, current_agent_types, available_agents),
                       current_agent_types, available_agents)
                ELSE p.steps
              adapted == [p EXCEPT !.steps = truncate_adapted(extended, step_limit)]
          IN [plan |-> adapted, is_new |-> FALSE, input |-> adapted]

\* _has_sufficient_information
has_sufficient_information(rs) ==
  \/ \E i \in 1..Len(rs) : rs[i].confidence >= 800
  \/ Cardinality({rs[i].agent_type : i \in 1..Len(rs)}) >= 2

\* _identify_missing_information; query_text_known says whether the metadata
\* of the results carries the query text
identify_missing_information(rs, query_text_known) ==
  IF rs = <<>> \/ ~query_text_known THEN <<>>
  ELSE LET agent_types == {rs[i].agent_type : i \in 1..Len(rs)}
       IN (IF agent_types = {"memory"} THEN <<"general">> ELSE <<>>)
          \o (IF agent_types = {"search"} /\ \E i \in 1..Len(rs) : rs[i].confidence < 600
              THEN <<"data">> ELSE <<>>)

\* the copy of a step that adapt_plan puts into a new plan
copy_step(s) == [agent_type |-> s.agent_type, status |-> s.status, result |-> s.result]

\* ChainOfThoughtPlanner.adapt_plan: the plan returned and whether it is a
\* new Plan
cot_adapt_plan(p, results_so_far, available_agents, query_text_known) ==
  IF has_sufficient_information(results_so_far)
  THEN [plan |-> Plan("cot",    copy_completed_steps(p)
                             \o StepIf("aggregator" \in available_agents, "aggregator")
                             \o StepIf("generative" \in available_agents, "generative")),
        is_new |-> TRUE]
  ELSE LET missing_info == identify_missing_information(results_so_far, query_text_known)
           mapped == [i \in 1..Len(missing_info) |->
                        map_info_need_to_agent(missing_info[i], available_agents)]
       IN IF missing_info # <<>>
          THEN [plan |-> Plan("cot",
                              [i \in 1..Len(p.steps) |-> copy_step(p.steps[i])]
                              \o Concat([i \in 1..Len(mapped) |->
                                           StepIf(mapped[i] # None, mapped[i])])),
                is_new |-> TRUE]
          ELSE [plan |-> p, is_new |-> FALSE]

\* ------------------------------------------------- aggregate, called alone
MaxResults == 2

AggTypes == {"memory", "search", "local_data", "cloud"}

AggConfidences == {600, 900}

\* eleven documents, one more than a source contributes
ManyDocs == [k \in 1..11 |-> Doc(10 + k)]

AggDocSeqs == {<<>>, <<Doc(1)>>, <<Doc(2), Doc(3)>>, ManyDocs}

AggResults == {AgentResult(t, c, ds, "") : t \in AggTypes, c \in AggConfidences,
                                            ds \in AggDocSeqs}

ResultLists == UNION {[1..n -> AggResults] : n \in 0..MaxResults}

MaxAgentsValues == {1, 5}

InitAgg ==
  /\ agg_results \in ResultLists
  /\ agg_max_agents \in MaxAgentsValues
  /\ agg_return = NoneResult
  /\ agg_called = FALSE
  /\ STMIdle
  /\ PQIdle
  /\ DedupIdle
  /\ PlanIdle
  /\ LTIdle
  /\ ConcIdle

Aggregate ==
  /\ ~agg_called
  /\ agg_return' = aggregate(agg_results, agg_max_agents)
  /\ agg_called' = TRUE
  /\ UNCHANGED <<agg_results, agg_max_agents, notAgg>>

NextAgg == Aggregate

SpecAgg == InitAgg /\ [][NextAgg]_vars

\* ------------------------------------ _deduplicate_documents, called alone
MaxDedupLen == 3

DedupPool == {Doc(i) : i \in {1, 2, 3, 5, 6, 7, 8, 9}}

DocumentLists == UNION {[1..n -> DedupPool] : n \in 0..MaxDedupLen}

InitDedup ==
  /\ dd_documents \in DocumentLists
  /\ dd_return = <<>>
  /\ dd_called = FALSE
  /\ STMIdle
  /\ AggIdle
  /\ PQIdle
  /\ PlanIdle
  /\ LTIdle
  /\ ConcIdle

Deduplicate ==
  /\ ~dd_called
  /\ dd_return' = deduplicate_documents(dd_documents)
  /\ dd_called' = TRUE
  /\ UNCHANGED <<dd_documents, notDedup>>

NextDedup == Deduplicate

SpecDedup == InitDedup /\ [][NextDedup]_vars

\* ============================================================== AgenticRag
MemoryHit == 800             \* app.py:224   memory_result.confidence >= 0.8
StoreThreshold == 500        \* app.py:313   final_result.confidence >= 0.5
DefaultMaxAgents == 5        \* aggregator.py:22

\* Plan.start_execution, Plan.complete, Plan.fail
start_execution(p) == [p EXCEPT !.status = "executing"]

plan_complete(p) == [p EXCEPT !.status = "completed"]

plan_fail(p) == [p EXCEPT !.status = "failed"]

\* PlanStep.start, PlanStep.complete, PlanStep.fail
step_start(s) == [s EXCEPT !.status = "in_progress"]

step_complete(s, r) == [s EXCEPT !.status = "completed", !.result = r]

step_fail(s) == [s EXCEPT !.status = "failed"]

\* what the configured agents return from process
GeneratedDoc == [id |-> 4, content |-> <<"g">>, source |-> "generative_agent",
                 relevance |-> 0, is_summary |-> FALSE]

AgentReturns(t) ==
  CASE t = "memory" -> {AgentResult(t, 900, <<Doc(1)>>, ""), AgentResult(t, 800, <<>>, ""),
                        AgentResult(t, 0, <<>>, "")}
    [] t = "search" -> {AgentResult(t, 800, <<Doc(1)>>, ""), AgentResult(t, 0, <<>>, "error")}
    [] t = "local_data" ->
         {AgentResult(t, 700, <<Doc(2)>>, ""), AgentResult(t, 0, <<>>, "error")}
    [] t = "cloud" -> {AgentResult(t, 600, <<Doc(3)>>, ""), AgentResult(t, 0, <<>>, "error")}
    [] t = "aggregator" ->
         {AgentResult(t, 0, <<>>, "No agent results provided for aggregation")}
    [] OTHER -> {AgentResult(t, 700, <<GeneratedDoc>>, ""), AgentResult(t, 0, <<>>, "error")}

\* the agents whose process reaches outside the program and so can raise
MayRaise == AgentTypes \ {"aggregator"}

\* GenerativeAgent.generate_response
GenerateReturns(context_result) ==
  IF context_result.documents = <<>>
  THEN AgentReturns("generative")
  ELSE {AgentResult("generative", 900, <<GeneratedDoc>>, ""),
        AgentResult("generative", 0, <<>>, "error")}

\* the response of a RagOutput built from a result
response_of(r) ==
  IF r # NoneResult /\ r.documents # <<>> THEN r.documents[1].content
  ELSE <<"Unable to generate response">>

\* an output from a memory result that does not say it is a memory hit
memory_output_unmarked(r) ==
  RagOutput(response_of(r), r.documents, None, r.confidence,
            {<<"memory_hit", "False">>}, {})

\* the output built directly from a memory result
memory_output(r) ==
  RagOutput(response_of(r), r.documents, None, r.confidence,
            {<<"memory_hit", "True">>}, {})

\* the output built from the final result
build_output(r, p) ==
  RagOutput(response_of(r),
            IF r # NoneResult THEN r.documents ELSE <<>>,
            IF p # NoPlan THEN "plan" ELSE None,
            IF r # NoneResult THEN r.confidence ELSE 0,
            {<<"memory_hit", "False">>}, {})

\* the output of the outer exception handler; 500 stands for a confidence
\* other than 0
error_output_nonzero(message) ==
  RagOutput(<<"Error processing query: ", message>>, <<>>, None, 500,
            {}, {<<"error", message>>})

error_output(message) ==
  RagOutput(<<"Error processing query: ", message>>, <<>>, None, 0,
            {}, {<<"error", message>>})

\* self.planners.get("react", next(iter(self.planners.values()))), for a
\* non-empty planners
select_planner(configured) ==
  IF "react" \in Range(configured) THEN "react" ELSE configured[1]

create_plan(planner, text, available_agents, step_limit) ==
  IF planner = "react" THEN react_create_plan(text, available_agents, step_limit)
  ELSE cot_create_plan(text, available_agents)

\* the branches of the step loop
on_start(p, i) == [p EXCEPT !.steps[i] = step_start(@)]

on_result_then_fail(p, i, r) == [p EXCEPT !.steps[i] = step_fail(step_complete(@, r))]

on_result(p, i, r) == [p EXCEPT !.steps[i] = step_complete(@, r)]

on_exception_ignored(p, i) == p

on_exception(p, i) == [p EXCEPT !.steps[i] = step_fail(@)]

on_unavailable(p, i) == [p EXCEPT !.steps[i] = step_fail(@)]

AllCompleted(p) == \A i \in 1..Len(p.steps) : p.steps[i].status = "completed"

finish_plan_always_completes(p) == plan_complete(p)

\* plan.complete() if every step is completed, plan.fail() otherwise
finish_plan(p) == IF AllCompleted(p) THEN plan_complete(p) ELSE plan_fail(p)

\* the aggregator if it is available and there are results, the best
\* individual result otherwise
combine(rs, available_agents) ==
  IF "aggregator" \in available_agents /\ rs # <<>>
  THEN aggregate(rs, DefaultMaxAgents)
  ELSE IF rs # <<>> THEN FirstMaxByField(rs, "confidence") ELSE NoneResult

\* ------------------------------------------------------------ process_query
AgentSets ==
  { {"memory", "search", "local_data", "cloud", "aggregator", "generative"},
    {"search", "local_data", "cloud", "generative"},
    {"search", "aggregator"},
    {} }

\* self.planners in insertion order: "react" is configured before "cot"
PlannerConfigs == {<<>>, <<"react">>, <<"cot">>, <<"react", "cot">>}

\* self.memories in insertion order
MemoryConfigs == {<<>>, <<"short_term">>, <<"short_term", "long_term">>}

MaxStepsValues == {1, 10}

cfgVars == <<agents, planners, memories, max_steps, query_text>>

\* process_query is entered: the query is created and nothing else is done
InitPQ ==
  /\ agents \in AgentSets
  /\ planners \in PlannerConfigs
  /\ memories \in MemoryConfigs
  /\ max_steps \in MaxStepsValues
  /\ query_text \in PQTexts
  /\ pc = "memory"
  /\ step = 0
  /\ memory_result = NoneResult
  /\ plan = NoPlan
  /\ results = <<>>
  /\ aggregated_result = NoneResult
  /\ final_result = NoneResult
  /\ output = NoOutput
  /\ plan_log = <<>>
  /\ stored = <<>>
  /\ raised = {}
  /\ raised_steps = {}
  /\ STMIdle
  /\ AggIdle
  /\ DedupIdle
  /\ PlanIdle
  /\ LTIdle
  /\ ConcIdle

\* an exception reaches the outer handler, which returns the error output
Escapes(stage, message) ==
  /\ output' = error_output(message)
  /\ pc' = "returned"
  /\ raised' = raised \cup {stage}

\* the memory pre-check returns
MemoryCheck ==
  /\ pc = "memory"
  /\ IF "memory" \in agents
     THEN \E r \in AgentReturns("memory") :
            /\ memory_result' = r
            /\ IF r.confidence >= MemoryHit
               THEN /\ output' = memory_output(r)
                    /\ pc' = "returned"
               ELSE /\ pc' = "plan"
                    /\ UNCHANGED output
     ELSE /\ pc' = "plan"
          /\ UNCHANGED <<memory_result, output>>
  /\ UNCHANGED <<cfgVars, step, plan, results, aggregated_result, final_result,
                 plan_log, stored, raised, raised_steps, notPQ>>

\* the memory pre-check raises
MemoryCheckRaises ==
  /\ pc = "memory"
  /\ "memory" \in agents
  /\ Escapes("memory", "memory")
  /\ UNCHANGED <<cfgVars, step, memory_result, plan, results, aggregated_result,
                 final_result, plan_log, stored, raised_steps, notPQ>>

\* planner selection, create_plan and plan.start_execution(); a plan without
\* steps has no step to visit and is finished at once
CreatePlan ==
  /\ pc = "plan"
  /\ IF planners = <<>>
     THEN /\ Escapes("planner", "")
          /\ UNCHANGED <<plan, plan_log, step>>
     ELSE \E created \in {create_plan(select_planner(planners), query_text, agents,
                                      max_steps)} :
          \E started \in {start_execution(created)} :
            /\ step' = 1
            /\ IF started.steps = <<>>
               THEN /\ plan' = finish_plan(started)
                    /\ plan_log' = <<created.status, started.status,
                                     finish_plan(started).status>>
                    /\ pc' = "aggregate"
               ELSE /\ plan' = started
                    /\ plan_log' = <<created.status, started.status>>
                    /\ pc' = "exec"
            /\ UNCHANGED <<output, raised>>
  /\ UNCHANGED <<cfgVars, memory_result, results, aggregated_result, final_result,
                 stored, raised_steps, notPQ>>

\* the step at position `step` has been visited with the plan now p: the
\* loop goes to the next step or, after the last one, sets the plan's status
Visited(p) ==
  IF step = Len(p.steps)
  THEN /\ plan' = finish_plan(p)
       /\ plan_log' = Append(plan_log, finish_plan(p).status)
       /\ pc' = "aggregate"
       /\ UNCHANGED step
  ELSE /\ plan' = p
       /\ step' = step + 1
       /\ UNCHANGED <<plan_log, pc>>

\* the loop reaches a step: step.start() if its agent is available,
\* step.fail() if it is not
StartStep ==
  /\ pc = "exec"
  /\ plan.steps[step].status = "pending"
  /\ IF plan.steps[step].agent_type \in agents
     THEN /\ plan' = on_start(plan, step)
          /\ UNCHANGED <<plan_log, pc, step>>
     ELSE Visited(on_unavailable(plan, step))
  /\ UNCHANGED <<cfgVars, memory_result, results, aggregated_result, final_result,
                 output, stored, raised, raised_steps, notPQ>>

\* the step's agent returns a result
CompleteStep ==
  /\ pc = "exec"
  /\ plan.steps[step].status = "in_progress"
  /\ \E r \in AgentReturns(plan.steps[step].agent_type) :
        /\ Visited(on_result(plan, step, r))
        /\ results' = Append(results, r)
  /\ UNCHANGED <<cfgVars, memory_result, aggregated_result, final_result, output,
                 stored, raised, raised_steps, notPQ>>

\* the step's agent raises
FailStep ==
  /\ pc = "exec"
  /\ plan.steps[step].status = "in_progress"
  /\ plan.steps[step].agent_type \in MayRaise
  /\ Visited(on_exception(plan, step))
  /\ raised' = raised \cup {"step"}
  /\ raised_steps' = raised_steps \cup {step}
  /\ UNCHANGED <<cfgVars, memory_result, results, aggregated_result, final_result,
                 output, stored, notPQ>>

\* aggregation, or the fallback to the best individual result
Combine ==
  /\ pc = "aggregate"
  /\ aggregated_result' = combine(results, agents)
  /\ pc' = "generate"
  /\ UNCHANGED <<cfgVars, step, memory_result, plan, results, final_result, output,
                 plan_log, stored, raised, raised_steps, notPQ>>

\* the aggregator raises
CombineRaises ==
  /\ pc = "aggregate"
  /\ "aggregator" \in agents /\ results # <<>>
  /\ Escapes("aggregation", "aggregation")
  /\ UNCHANGED <<cfgVars, step, memory_result, plan, results, aggregated_result,
                 final_result, plan_log, stored, raised_steps, notPQ>>

\* generation of the final response, or the aggregated result as it is
Generate ==
  /\ pc = "generate"
  /\ IF "generative" \in agents /\ aggregated_result # NoneResult
     THEN \E r \in GenerateReturns(aggregated_result) : final_result' = r
     ELSE final_result' = aggregated_result
  /\ pc' = "store"
  /\ UNCHANGED <<cfgVars, step, memory_result, plan, results, aggregated_result, output,
                 plan_log, stored, raised, raised_steps, notPQ>>

\* the generative agent raises
GenerateRaises ==
  /\ pc = "generate"
  /\ "generative" \in agents /\ aggregated_result # NoneResult
  /\ Escapes("generation", "generation")
  /\ UNCHANGED <<cfgVars, step, memory_result, plan, results, aggregated_result,
                 final_result, plan_log, stored, raised_steps, notPQ>>

\* every final result is stored
write_back_any(r, tiers) == IF r # NoneResult THEN tiers ELSE <<>>

\* "Store in memory": the tiers store is called on
write_back(r, tiers) ==
  IF r # NoneResult /\ r.confidence >= StoreThreshold THEN tiers ELSE <<>>

\* the output is built, the final result is stored in every memory if its
\* confidence is at least 0.5, and the output is returned
WriteBack ==
  /\ pc = "store"
  /\ stored' = write_back(final_result, memories)
  /\ output' = build_output(final_result, plan)
  /\ pc' = "returned"
  /\ UNCHANGED <<cfgVars, step, memory_result, plan, results, aggregated_result,
                 final_result, plan_log, raised, raised_steps, notPQ>>

\* store raises in memory number k + 1, after the first k stores succeeded
WriteBackRaises(k) ==
  /\ pc = "store"
  /\ final_result # NoneResult /\ final_result.confidence >= StoreThreshold
  /\ k < Len(memories)
  /\ stored' = Take(memories, k)
  /\ Escapes("store", "store")
  /\ UNCHANGED <<cfgVars, step, memory_result, plan, results, aggregated_result,
                 final_result, plan_log, raised_steps, notPQ>>

NextPQ ==
  \/ MemoryCheck
  \/ MemoryCheckRaises
  \/ CreatePlan
  \/ StartStep
  \/ CompleteStep
  \/ FailStep
  \/ Combine
  \/ CombineRaises
  \/ Generate
  \/ GenerateRaises
  \/ WriteBack
  \/ \E k \in 0..Len(memories) : WriteBackRaises(k)

SpecPQ == InitPQ /\ [][NextPQ]_vars

\* ----------------------------------------------- planners, called directly
MaxExecs == 3        \* steps a caller starts
MaxAdapts == 2       \* adapt_plan calls per plan

PlannerTypes == {"react", "cot"}

\* max_steps of ReActPlanner, max_depth of ChainOfThoughtPlanner
StepLimits == {1, 2, 3, 5}

\* the result a step of type t may complete with
PlanReturns(t) ==
  {AgentResult(t, 500, <<>>, ""), AgentResult(t, 900, <<Doc(1)>>, "")}

\* a planner (ReActPlanner(max_steps=...) or ChainOfThoughtPlanner(
\* max_depth=...)), a query text and a dictionary of available agents
InitPlan ==
  /\ pl_planner \in PlannerTypes
  /\ pl_max_steps \in StepLimits
  /\ pl_text \in PQTexts
  /\ pl_agents \in SUBSET AgentTypes
  /\ pl_plan = NoPlan
  /\ pl_plan_id = 0
  /\ pl_results = <<>>
  /\ pl_op = "idle"
  /\ pl_input = NoPlan
  /\ pl_execs = 0
  /\ pl_adapts = 0
  /\ STMIdle
  /\ AggIdle
  /\ PQIdle
  /\ DedupIdle
  /\ LTIdle
  /\ ConcIdle

plCfg == <<pl_planner, pl_max_steps, pl_text, pl_agents>>

\* planner.create_plan(query, available_agents)
PlannerCreatePlan ==
  /\ pl_op = "idle"
  /\ pl_plan' = IF pl_planner = "react"
                THEN react_create_plan(pl_text, pl_agents, pl_max_steps)
                ELSE cot_create_plan(pl_text, pl_agents)
  /\ pl_plan_id' = 1
  /\ pl_op' = "create"
  /\ UNCHANGED <<plCfg, pl_results, pl_input, pl_execs, pl_adapts, notPlan>>

\* the step an executor takes next: the first pending one
NextPending(p) ==
  CHOOSE i \in 1..Len(p.steps) :
    /\ p.steps[i].status = "pending"
    /\ \A j \in 1..(i - 1) : p.steps[j].status # "pending"

InProgress(p) == {i \in 1..Len(p.steps) : p.steps[i].status = "in_progress"}

\* the caller starts the next step (PlanStep.start)
PlannerStartStep ==
  /\ pl_op # "idle"
  /\ pl_execs < MaxExecs
  /\ InProgress(pl_plan) = {}
  /\ \E i \in 1..Len(pl_plan.steps) : pl_plan.steps[i].status = "pending"
  /\ pl_plan' = on_start(pl_plan, NextPending(pl_plan))
  /\ pl_execs' = pl_execs + 1
  /\ pl_op' = "exec"
  /\ UNCHANGED <<plCfg, pl_plan_id, pl_results, pl_input, pl_adapts, notPlan>>

\* the step in progress completes with a result (PlanStep.complete), which
\* the caller appends to its results
PlannerCompleteStep ==
  /\ pl_op # "idle"
  /\ \E i \in InProgress(pl_plan) :
       \E r \in PlanReturns(pl_plan.steps[i].agent_type) :
         /\ pl_plan' = on_result(pl_plan, i, r)
         /\ pl_results' = Append(pl_results, r)
  /\ pl_op' = "exec"
  /\ UNCHANGED <<plCfg, pl_plan_id, pl_input, pl_execs, pl_adapts, notPlan>>

\* the step in progress fails (PlanStep.fail)
PlannerFailStep ==
  /\ pl_op # "idle"
  /\ \E i \in InProgress(pl_plan) : pl_plan' = on_exception(pl_plan, i)
  /\ pl_op' = "exec"
  /\ UNCHANGED <<plCfg, pl_plan_id, pl_results, pl_input, pl_execs, pl_adapts, notPlan>>

\* planner.adapt_plan(plan, results_so_far, available_agents); the results
\* may or may not carry the query text in their metadata
PlannerAdaptPlan(query_text_known) ==
  /\ pl_op # "idle"
  /\ pl_adapts < MaxAdapts
  /\ \E adapted \in {IF pl_planner = "react"
                      THEN react_adapt_plan(pl_plan, pl_results, pl_agents, pl_max_steps)
                      ELSE cot_adapt_plan(pl_plan, pl_results, pl_agents,
                                          query_text_known)} :
       /\ pl_plan' = adapted.plan
       /\ pl_plan_id' = IF adapted.is_new THEN pl_plan_id + 1 ELSE pl_plan_id
  /\ pl_input' = pl_plan
  /\ pl_adapts' = pl_adapts + 1
  /\ pl_op' = "adapt"
  /\ UNCHANGED <<plCfg, pl_results, pl_execs, notPlan>>

NextPlan ==
  \/ PlannerCreatePlan
  \/ PlannerStartStep
  \/ PlannerCompleteStep
  \/ PlannerFailStep
  \/ \E known \in BOOLEAN : PlannerAdaptPlan(known)

SpecPlan == InitPlan /\ [][NextPlan]_vars

\* ============================================================ LongTermMemory
MaxLTEntries == 1    \* store calls (fresh MemoryEntry ids)
MaxLTAccess == 1     \* retrievals that reach an entry

SimilarityThreshold == 700   \* long_term.py:126   highest_score < 0.7
ShortTermSufficient == 800   \* memory.py:66       confidence >= 0.8
LongTermSufficient == 700    \* memory.py:75       confidence >= 0.7

\* the Query objects the callers pass, their texts as the words split()
\* yields: two of the same text, one that shares three words of four with
\* them, one without a word
LTQueries ==
  { [id |-> 1, text |-> <<"cats", "dogs", "birds", "fish">>],
    [id |-> 2, text |-> <<"Cats", "dogs", "birds">>],
    [id |-> 3, text |-> <<"cats", "dogs", "birds", "fish">>],
    [id |-> 4, text |-> <<>>] }

\* the queries whose results are stored
StoredQueries == {q \in LTQueries : q.id \in {1, 2}}

\* the documents of the results stored: none, or one
LTDocSeqs == {<<>>, <<1>>}

LTConfidences == {600, 900}

\* the outcome of a call: the tables afterwards, the value returned, whether
\* a statement failed and whether the exception left the call
Outcome(db, result, removed, failed) ==
  [db |-> db, result |-> result, removed |-> removed, failed |-> failed, raised |-> failed]

\* a statement raised: the call is left with the tables as they are
Failure(db) == Outcome(db, NoResult, FALSE, TRUE)

\* the exception is not caught
catch_nothing(o) == o

\* "except Exception as e": the error is logged and retrieve returns None,
\* remove returns False, store, update and clear return
catch(o) ==
  IF o.raised THEN [o EXCEPT !.raised = FALSE, !.result = NoResult, !.removed = FALSE]
  ELSE o

\* _store_query
store_query(db, q) ==
  IF \E row \in db.queries : row.id = q.id
  THEN db
  ELSE [db EXCEPT !.queries = db.queries \cup {[id |-> q.id, text |-> q.text]}]

\* the Jaccard similarity of _find_similar_queries, in thousandths
similarity(text, stored_text) ==
  LET query_keywords == Keywords(text)
      stored_keywords == Keywords(stored_text)
      united == Cardinality(query_keywords \cup stored_keywords)
  IN IF united = 0 THEN 0
     ELSE (1000 * Cardinality(query_keywords \cap stored_keywords)) \div united

\* similar_queries[0] of _find_similar_queries: a stored query of the highest
\* similarity with its score; among equal scores the stable sort keeps the
\* order of the rows, which a SELECT without ORDER BY leaves open
find_similar_queries(db, text) ==
  {[id |-> row.id, score |-> similarity(text, row.text)] :
     row \in {r \in db.queries :
                \A other \in db.queries :
                   similarity(text, other.text) <= similarity(text, r.text)}}

\* fetchone() of the entries of a query ordered by relevance_score
\* descending: an entry of the highest relevance
best_entries(db, query_id) ==
  {e \in Range(db.entries) :
     /\ e.query_id = query_id
     /\ \A f \in Range(db.entries) :
          f.query_id = query_id => f.relevance_score <= e.relevance_score}

\* _update_memory_access
update_memory_access(db, memory_id) ==
  LET rows == db.entries
  IN [db EXCEPT !.entries =
        [i \in 1..Len(rows) |->
           IF rows[i].id = memory_id
           THEN [rows[i] EXCEPT !.access_count = rows[i].access_count + 1]
           ELSE rows[i]]]

\* _get_documents_for_memory: the linked documents the documents table holds
get_documents_for_memory(db, memory_id) ==
  IF <<memory_id, 1>> \in db.links /\ 1 \in db.documents THEN <<1>> ELSE <<>>

\* retrieve from "best_query_id, highest_score = similar_queries[0]" on;
\* fail_at numbers the statement that fails (0: none)
retrieve_best(db, q, best, fail_at) ==
  IF best.score < SimilarityThreshold THEN {Outcome(db, NoResult, FALSE, FALSE)}
  ELSE IF fail_at = 3 THEN {Failure(db)}
  ELSE IF best_entries(db, best.id) = {} THEN {Outcome(db, NoResult, FALSE, FALSE)}
  ELSE IF fail_at = 4 THEN {Failure(db)}
  ELSE { LET touched == update_memory_access(db, e.id)
             documents == get_documents_for_memory(touched, e.id)
         IN IF fail_at = 5 THEN Failure(touched)
            ELSE IF documents = <<>> THEN Outcome(touched, NoResult, FALSE, FALSE)
            ELSE Outcome(touched,
                         [agent_type |-> "memory", query_id |-> q.id,
                          documents |-> documents, confidence |-> best.score,
                          memory_id |-> e.id, memory_age |-> 0],
                         FALSE, FALSE)
         : e \in best_entries(db, best.id) }

\* LongTermMemory.retrieve: the outcomes it can have
lt_retrieve(db, q, fail_at) ==
  LET kept == store_query(db, q)
      outcomes ==
        IF fail_at = 1 THEN {Failure(db)}
        ELSE IF fail_at = 2 THEN {Failure(kept)}
        ELSE UNION {retrieve_best(kept, q, best, fail_at) :
                      best \in find_similar_queries(kept, q.text)}
  IN {catch(o) : o \in outcomes}

\* LongTermMemory.store
lt_store(db, q, documents, confidence, fail_at) ==
  LET kept == store_query(db, q)
      with_documents == [kept EXCEPT !.documents = kept.documents \cup Range(documents)]
      with_entry ==
        [with_documents EXCEPT !.entries =
           Append(with_documents.entries,
                  [id |-> db.next_entry, query_id |-> q.id, relevance_score |-> confidence,
                   access_count |-> 0])]
      with_links ==
        [with_entry EXCEPT !.links =
           with_entry.links \cup {<<db.next_entry, d>> : d \in Range(documents)}]
  IN catch(CASE fail_at = 1 -> Failure(db)
             [] fail_at = 2 -> Failure(kept)
             [] fail_at = 3 -> Failure(with_documents)
             [] fail_at = 4 -> Failure(with_entry)
             [] OTHER -> Outcome(with_links, NoResult, FALSE, FALSE))

\* LongTermMemory.update with an entry of the given id and document ids,
\* its statistics and relevance as the table has them
lt_update(db, memory_id, document_ids, fail_at) ==
  LET unlinked == [db EXCEPT !.links = {l \in db.links : l[1] # memory_id}]
      relinked == [unlinked EXCEPT !.links =
                     unlinked.links \cup {<<memory_id, d>> : d \in Range(document_ids)}]
  IN catch(IF fail_at = 1 THEN Failure(db)
           ELSE IF ~\E e \in Range(db.entries) : e.id = memory_id
                THEN Outcome(db, NoResult, FALSE, FALSE)
           ELSE IF fail_at = 2 THEN Failure(db)
           ELSE IF fail_at = 3 THEN Failure(db)
           ELSE IF fail_at = 4 THEN Failure(unlinked)
           ELSE Outcome(relinked, NoResult, FALSE, FALSE))

\* _cleanup_document for each of the listed documents
cleanup_document(db, document_ids) ==
  [db EXCEPT !.documents =
     {d \in db.documents : d \in document_ids => \E l \in db.links : l[2] = d}]

\* LongTermMemory.remove
lt_remove(db, memory_id, fail_at) ==
  LET document_ids == {l[2] : l \in {k \in db.links : k[1] = memory_id}}
      unlinked == [db EXCEPT !.links = {l \in db.links : l[1] # memory_id}]
      deleted == [unlinked EXCEPT !.entries = SelectSeq(unlinked.entries,
                                                        LAMBDA e : e.id # memory_id)]
      rowcount == Len(unlinked.entries) - Len(deleted.entries)
  IN catch(IF fail_at = 1 THEN Failure(db)
           ELSE IF fail_at = 2 THEN Failure(db)
           ELSE IF fail_at = 3 THEN Failure(unlinked)
           ELSE IF rowcount = 0 THEN Outcome(deleted, NoResult, FALSE, FALSE)
           ELSE IF fail_at = 4 THEN Failure(deleted)
           ELSE Outcome(cleanup_document(deleted, document_ids), NoResult, TRUE, FALSE))

\* LongTermMemory.clear
lt_clear(db, fail_at) ==
  LET no_links == [db EXCEPT !.links = {}]
      no_documents == [no_links EXCEPT !.documents = {}]
      no_entries == [no_documents EXCEPT !.entries = <<>>]
      no_queries == [no_entries EXCEPT !.queries = {}]
  IN catch(CASE fail_at = 1 -> Failure(db)
             [] fail_at = 2 -> Failure(no_links)
             [] fail_at = 3 -> Failure(no_documents)
             [] fail_at = 4 -> Failure(no_entries)
             [] OTHER -> Outcome(no_queries, NoResult, FALSE, FALSE))

\* ------------------------------------------------------------- MemoryAgent
\* what short-term memory may answer the agent: None, or a result
STMAnswers ==
  {NoResult} \cup
  {[agent_type |-> "memory", query_id |-> 0, documents |-> <<1>>, confidence |-> c,
    memory_id |-> 0, memory_age |-> 0] : c \in {750, 900}}

\* the agent's own result when no memory has a match
NoMatch(q) ==
  [agent_type |-> "memory", query_id |-> q.id, documents |-> <<>>, confidence |-> 0,
   memory_id |-> 0, memory_age |-> 0]

\* the short-term answer is never taken as sufficient
short_term_sufficient_never(r) == FALSE

\* short_term_result and short_term_result.confidence >= 0.8
short_term_sufficient(r) == r # NoResult /\ r.confidence >= ShortTermSufficient

\* "Return the best result from any memory component": the loop over the
\* memories, short-term first
best_result(answers) ==
  LET better == SelectSeq(answers, LAMBDA r : r # NoResult /\ r.confidence > 0)
  IN IF better = <<>> THEN NoResult
     ELSE FirstMaxByField(better, "confidence")

\* MemoryAgent.process with a long-term memory and, if has_short_term, a
\* short-term memory that answers short_term_result to each retrieve
process(db, q, has_short_term, short_term_result) ==
  IF has_short_term /\ short_term_sufficient(short_term_result)
  THEN {Outcome(db, short_term_result, FALSE, FALSE)}
  ELSE UNION {
         IF first.result # NoResult /\ first.result.confidence >= LongTermSufficient
         THEN {first}
         ELSE { LET best == best_result((IF has_short_term THEN <<short_term_result>>
                                                            ELSE <<>>)
                                        \o <<second.result>>)
                IN [second EXCEPT !.result = IF best # NoResult THEN best ELSE NoMatch(q)]
                : second \in lt_retrieve(first.db, q, 0) }
         : first \in lt_retrieve(db, q, 0) }

\* ---------------------------------------------------- long-term memory, used
InitLT ==
  /\ ltm = EmptyTables
  /\ lt_call = NoLTCall
  /\ STMIdle
  /\ AggIdle
  /\ PQIdle
  /\ DedupIdle
  /\ PlanIdle
  /\ ConcIdle

\* the record of a call
LTCalled(o) ==
  [result |-> Returned(o.result), removed |-> o.removed, failed |-> o.failed,
   raised |-> o.raised, short_term |-> -1]

AccessBounded == \A e \in Range(ltm.entries) : e.access_count < MaxLTAccess

LTRetrieve(q, fail_at) ==
  /\ AccessBounded
  /\ \E o \in lt_retrieve(ltm, q, fail_at) :
       /\ ltm' = o.db
       /\ lt_call' = LTCalled(o)
  /\ UNCHANGED notLT

LTStore(q, documents, confidence, fail_at) ==
  /\ ltm.next_entry <= MaxLTEntries
  /\ \E o \in {lt_store(ltm, q, documents, confidence, fail_at)} :
       /\ ltm' = [o.db EXCEPT !.next_entry = @ + 1]
       /\ lt_call' = LTCalled(o)
  /\ UNCHANGED notLT

LTUpdate(memory_id, document_ids, fail_at) ==
  /\ \E o \in {lt_update(ltm, memory_id, document_ids, fail_at)} :
       /\ ltm' = o.db
       /\ lt_call' = LTCalled(o)
  /\ UNCHANGED notLT

LTRemove(memory_id, fail_at) ==
  /\ \E o \in {lt_remove(ltm, memory_id, fail_at)} :
       /\ ltm' = o.db
       /\ lt_call' = LTCalled(o)
  /\ UNCHANGED notLT

LTClear(fail_at) ==
  /\ \E o \in {lt_clear(ltm, fail_at)} :
       /\ ltm' = o.db
       /\ lt_call' = LTCalled(o)
  /\ UNCHANGED notLT

Process(q, has_short_term, short_term_result) ==
  /\ AccessBounded
  /\ \E o \in process(ltm, q, has_short_term, short_term_result) :
       /\ ltm' = o.db
       /\ lt_call' = [LTCalled(o) EXCEPT
                        !.short_term = IF has_short_term /\ short_term_result # NoResult
                                       THEN short_term_result.confidence ELSE -1]
  /\ UNCHANGED notLT

NextLT ==
  \/ \E q \in LTQueries, k \in 0..5 : LTRetrieve(q, k)
  \/ \E q \in StoredQueries, ds \in LTDocSeqs, c \in LTConfidences,
        k \in 0..4 : LTStore(q, ds, c, k)
  \/ \E id \in 1..MaxLTEntries, ds \in LTDocSeqs, k \in 0..4 : LTUpdate(id, ds, k)
  \/ \E id \in 1..MaxLTEntries, k \in 0..4 : LTRemove(id, k)
  \/ \E k \in 0..4 : LTClear(k)
  \/ \E q \in LTQueries, has_short_term \in BOOLEAN :
       \E short_term_result \in (IF has_short_term THEN STMAnswers ELSE {NoResult}) :
         Process(q, has_short_term, short_term_result)

SpecLT == InitLT /\ [][NextLT]_vars

\* ================================== ShortTermMemory under concurrent callers
\* store, remove and _cleanup_documents hold no lock: two callers of one
\* store run their statements in any interleaving.  A caller is at one of
\*   "documents"        self.document_store[document.id] = document
\*   "insert"           self.memory[memory_entry.id] = memory_entry
\*   "while"            while len(self.memory) > self.capacity
\*   "oldest"           oldest_id, _ = next(iter(self.memory.items()))
\*   "if_held"          if memory_id in self.memory
\*   "read_ids"         document_ids = self.memory[memory_id].document_ids
\*   "del_entry"        del self.memory[memory_id]
\*   "is_referenced"    is_referenced = any(...)
\*   "if_unreferenced"  if not is_referenced and doc_id in self.document_store
\*   "del_document"     del self.document_store[doc_id]
\* or has "returned" or "raised".
Threads == {1, 2}

\* the results a caller stores: without documents, or with document 1
ConcDocSeqs == {<<>>, <<1>>}

\* the entries a store holds before the callers start: what store calls made
\* one after the other leave
ConcEntry(id, documents) == MemoryEntry(id, id, documents, 800, 0)

ConcMemories ==
  {<<>>}
  \cup {<<ConcEntry(1, ds)>> : ds \in ConcDocSeqs}
  \cup {<<ConcEntry(1, ds[1]), ConcEntry(2, ds[2])>> : ds \in ConcDocSeqs \X ConcDocSeqs}

\* a caller about to run store(query, result) with these documents
StoreCall(documents) ==
  [op |-> "store", pc |-> IF documents = <<>> THEN "insert" ELSE "documents",
   documents |-> documents, memory_id |-> 0, todo |-> documents, doc_id |-> 0,
   is_referenced |-> FALSE]

\* a caller about to run remove(memory_id)
RemoveCall(id) ==
  [op |-> "remove", pc |-> "if_held", documents |-> <<>>, memory_id |-> id,
   todo |-> <<>>, doc_id |-> 0, is_referenced |-> FALSE]

InitConc ==
  /\ capacity \in {0, 1, 2}
  /\ memory \in {m \in ConcMemories : Len(m) <= capacity}
  /\ document_store = UNION {Range(e.document_ids) : e \in Range(memory)}
  /\ nextEntry = 3
  /\ callers \in [Threads -> {StoreCall(ds) : ds \in ConcDocSeqs}
                             \cup {RemoveCall(id) : id \in 1..2}]
  /\ \E t \in Threads : callers[t].op = "store"
  /\ ttl = 0
  /\ now = 0
  /\ lastCall = None
  /\ lru = <<>>
  /\ AggIdle
  /\ PQIdle
  /\ DedupIdle
  /\ PlanIdle
  /\ LTIdle

\* where a caller goes when remove returns: back to the while loop of store,
\* or out of the call
after_remove(c) == IF c.op = "store" THEN "while" ELSE "returned"

\* the for loop of _cleanup_documents: the next document id, or the end of
\* remove
next_document(c, todo) == IF todo = <<>> THEN after_remove(c) ELSE "is_referenced"

\* store, "Store documents first": one document
StoreDocument(t) ==
  /\ callers[t].pc = "documents"
  /\ document_store' = store_documents(document_store, <<Head(callers[t].todo)>>)
  /\ callers' = [callers EXCEPT ![t].todo = Tail(@),
                                ![t].pc = IF Tail(callers[t].todo) = <<>>
                                          THEN "insert" ELSE "documents"]
  /\ UNCHANGED <<capacity, memory, nextEntry, notConc>>

\* store, "Create memory entry" and "Add to memory"
InsertEntry(t) ==
  /\ callers[t].pc = "insert"
  /\ memory' = Append(memory, MemoryEntry(nextEntry, nextEntry, callers[t].documents, 800, 0))
  /\ nextEntry' = nextEntry + 1
  /\ callers' = [callers EXCEPT ![t].pc = "while"]
  /\ UNCHANGED <<capacity, document_store, notConc>>

\* store, the test of the while loop
CheckCapacity(t) ==
  /\ callers[t].pc = "while"
  /\ callers' = [callers EXCEPT ![t].pc = IF Len(memory) > capacity
                                          THEN "oldest" ELSE "returned"]
  /\ UNCHANGED <<capacity, memory, document_store, nextEntry, notConc>>

\* store, "Remove least recently used": next(iter(...)) raises StopIteration
\* on an empty map; the call self.remove(oldest_id) starts
PickOldest(t) ==
  /\ callers[t].pc = "oldest"
  /\ callers' = IF memory = <<>>
                THEN [callers EXCEPT ![t].pc = "raised"]
                ELSE [callers EXCEPT ![t].pc = "if_held", ![t].memory_id = Head(memory).id]
  /\ UNCHANGED <<capacity, memory, document_store, nextEntry, notConc>>

\* remove, "if memory_id in self.memory"
RemoveCheck(t) ==
  /\ callers[t].pc = "if_held"
  /\ callers' = [callers EXCEPT ![t].pc = IF callers[t].memory_id \in HeldIds(memory)
                                          THEN "read_ids" ELSE after_remove(callers[t])]
  /\ UNCHANGED <<capacity, memory, document_store, nextEntry, notConc>>

\* remove, "Get document IDs to check for cleanup": KeyError when the entry
\* has gone since the test
RemoveReadIds(t) ==
  /\ callers[t].pc = "read_ids"
  /\ callers' = IF callers[t].memory_id \in HeldIds(memory)
                THEN [callers EXCEPT ![t].pc = "del_entry",
                                     ![t].todo = EntryOf(memory, callers[t].memory_id).document_ids]
                ELSE [callers EXCEPT ![t].pc = "raised"]
  /\ UNCHANGED <<capacity, memory, document_store, nextEntry, notConc>>

\* remove, "Remove memory entry": KeyError when the entry has gone
RemoveDelete(t) ==
  /\ callers[t].pc = "del_entry"
  /\ IF callers[t].memory_id \in HeldIds(memory)
     THEN /\ memory' = SeqWithout(memory, callers[t].memory_id)
          /\ callers' = [callers EXCEPT ![t].pc = next_document(callers[t], callers[t].todo)]
     ELSE /\ callers' = [callers EXCEPT ![t].pc = "raised"]
          /\ UNCHANGED memory
  /\ UNCHANGED <<capacity, document_store, nextEntry, notConc>>

\* _cleanup_documents, the head of the for loop and "is_referenced = any(...)"
CleanupIsReferenced(t) ==
  /\ callers[t].pc = "is_referenced"
  /\ callers' = [callers EXCEPT
       ![t].doc_id = Head(callers[t].todo),
       ![t].todo = Tail(@),
       ![t].is_referenced = \E e \in Range(memory) :
                               Head(callers[t].todo) \in Range(e.document_ids),
       ![t].pc = "if_unreferenced"]
  /\ UNCHANGED <<capacity, memory, document_store, nextEntry, notConc>>

\* _cleanup_documents, "if not is_referenced and doc_id in self.document_store"
CleanupTest(t) ==
  /\ callers[t].pc = "if_unreferenced"
  /\ callers' = [callers EXCEPT ![t].pc =
                   IF ~callers[t].is_referenced /\ callers[t].doc_id \in document_store
                   THEN "del_document" ELSE next_document(callers[t], callers[t].todo)]
  /\ UNCHANGED <<capacity, memory, document_store, nextEntry, notConc>>

\* _cleanup_documents, "del self.document_store[doc_id]": KeyError when the
\* document has gone since the test
CleanupDelete(t) ==
  /\ callers[t].pc = "del_document"
  /\ IF callers[t].doc_id \in document_store
     THEN /\ document_store' = document_store \ {callers[t].doc_id}
          /\ callers' = [callers EXCEPT ![t].pc = next_document(callers[t], callers[t].todo)]
     ELSE /\ callers' = [callers EXCEPT ![t].pc = "raised"]
          /\ UNCHANGED document_store
  /\ UNCHANGED <<capacity, memory, nextEntry, notConc>>

NextConc ==
  \E t \in Threads :
    \/ StoreDocument(t)
    \/ InsertEntry(t)
    \/ CheckCapacity(t)
    \/ PickOldest(t)
    \/ RemoveCheck(t)
    \/ RemoveReadIds(t)
    \/ RemoveDelete(t)
    \/ CleanupIsReferenced(t)
    \/ CleanupTest(t)
    \/ CleanupDelete(t)

SpecConc == InitConc /\ [][NextConc]_vars

\* ---------------------------------------------------------------- claims
\* position of x in the sequence of ids s (0 when absent)
Pos(s, x) == IF x \in Range(s) THEN CHOOSE i \in 1..Len(s) : s[i] = x ELSE 0

\* C1: with capacity >= 1 the ordered map never holds more than capacity
\* entries once a call has returned.
C1_CapacityBound == capacity >= 1 => Len(memory) <= capacity

\* a store found the map over capacity and evicted down to exactly capacity
C1_Witness ==
  /\ capacity >= 1
  /\ lastCall.op = "store"
  /\ lastCall.evicted # <<>>
  /\ Len(memory) = capacity

\* C2: the entries a store evicts are the least recently used ones, where
\* insertion, update and a retrieve hit make an entry the most recently used
\* (lru lists the held ids by that rule): every evicted entry precedes every
\* entry still held in the recency order.
C2_EvictsLeastRecentlyUsed ==
  [][nextEntry' = nextEntry + 1 =>
       LET order == Append(lru, nextEntry)
           evicted == (HeldIds(memory) \cup {nextEntry}) \ HeldIds(memory')
       IN /\ Range(lru) = HeldIds(memory)
          /\ \A e \in evicted : \A h \in HeldIds(memory') :
                Pos(order, e) < Pos(order, h)]_stmVars

\* a store evicted an entry inserted later than one it kept (the kept one
\* had been hit or updated in between)
C2_Witness ==
  /\ lastCall.op = "store"
  /\ \E i \in 1..Len(lastCall.evicted) : \E h \in HeldIds(memory) :
        h < lastCall.evicted[i]

\* C3, for texts with at least one word (the case the test exercises): a
\* retrieve that immediately follows store(q, r), with any Query object whose
\* text equals q's text, returns a result with confidence >= 0.7.
C3_SameTextHits ==
  (/\ lastCall.op = "retrieve"
   /\ capacity >= 1
   /\ lastCall.prev.stored
   /\ QueryText(lastCall.query) = QueryText(lastCall.prev.query)
   /\ Keywords(QueryText(lastCall.query)) # {})
  => (lastCall.result # NoResult /\ lastCall.result.confidence >= 700)

\* C4 as stated: store(q, r) then retrieve(q) with the same Query returns a
\* MEMORY result for q.id with exactly r's documents and confidence >= 0.7.
C4_Original ==
  (/\ lastCall.op = "retrieve"
   /\ capacity >= 1
   /\ lastCall.prev.stored
   /\ lastCall.query = lastCall.prev.query)
  => (/\ lastCall.result.agent_type = "memory"
      /\ lastCall.result.query_id = lastCall.query
      /\ lastCall.result.documents = lastCall.prev.documents
      /\ lastCall.result.confidence >= 700)

\* C4 amended: the same, for a Query whose text has at least one word and
\* under whose id the store holds no other entry.
C4_StoreThenRetrieve ==
  (/\ lastCall.op = "retrieve"
   /\ capacity >= 1
   /\ lastCall.prev.stored
   /\ lastCall.query = lastCall.prev.query
   /\ Keywords(QueryText(lastCall.query)) # {}
   /\ Cardinality({e \in Range(memory) : e.query_id = lastCall.query}) <= 1)
  => (/\ lastCall.result.agent_type = "memory"
      /\ lastCall.result.query_id = lastCall.query
      /\ lastCall.result.documents = lastCall.prev.documents
      /\ lastCall.result.confidence >= 700)

\* the stored result had documents and the retrieve returned them
C4_Witness ==
  /\ lastCall.op = "retrieve"
  /\ capacity >= 1
  /\ lastCall.prev.stored
  /\ lastCall.query = lastCall.prev.query
  /\ lastCall.prev.documents # <<>>
  /\ lastCall.result.documents = lastCall.prev.documents
  /\ Cardinality({e \in Range(memory) : e.query_id = lastCall.query}) = 1

\* C5: with ttl > 0, a retrieve call never returns an entry older than ttl,
\* removes every entry older than ttl from the map, leaves none of their
\* documents behind unless a remaining entry cites it; an entry's age counts
\* from its creation whatever hits it had.
C5_ExpiredPurged ==
  [][(lastCall'.op = "retrieve" /\ ttl > 0) =>
       /\ \A e \in Range(memory) :
            (now - e.created_at) > ttl =>
              /\ e.id \notin HeldIds(memory')
              /\ lastCall'.result.memory_id # e.id
              /\ \A d \in Range(e.document_ids) :
                    d \in document_store' =>
                      \E k \in Range(memory') : d \in Range(k.document_ids)
       /\ lastCall'.result.memory_age <= ttl]_stmVars

\* a retrieve purged an expired entry that had been hit before it expired,
\* together with its documents
C5_Witness ==
  /\ lastCall.op = "retrieve"
  /\ ttl > 0
  /\ \E i \in 1..Len(lastCall.purged) :
        /\ lastCall.purged[i].access_count > 0
        /\ lastCall.purged[i].document_ids # <<>>
        /\ Range(lastCall.purged[i].document_ids) \cap document_store = {}

\* ------------------------------------------------- claims on process_query
\* the step loop is over
StepsVisited == plan # NoPlan /\ pc \in {"aggregate", "generate", "store", "returned"}

\* C6: once process_query has visited all the steps of a plan, the plan is
\* completed exactly when every step is completed and failed as soon as one
\* step is failed; the statuses the plan has gone through are created,
\* executing and then exactly one of completed and failed.
C6_PlanStatus ==
  /\ StepsVisited =>
       /\ plan.status = "completed" <=>
            \A i \in 1..Len(plan.steps) : plan.steps[i].status = "completed"
       /\ (\E i \in 1..Len(plan.steps) : plan.steps[i].status = "failed")
            => plan.status = "failed"
       /\ plan_log \in {<<"created", "executing", "completed">>,
                        <<"created", "executing", "failed">>}
       /\ plan.status = plan_log[3]
  /\ (plan # NoPlan /\ ~StepsVisited) =>
       /\ plan_log = <<"created", "executing">>
       /\ plan.status = "executing"
  /\ plan = NoPlan => plan_log = <<>>

\* a plan with a completed and a failed step has been finished as failed
C6_Witness ==
  /\ pc = "returned"
  /\ plan.status = "failed"
  /\ \E i, j \in 1..Len(plan.steps) :
        plan.steps[i].status = "completed" /\ plan.steps[j].status = "failed"

\* C7: a step whose agent raised is failed; the steps after it are still
\* visited, so that when the loop is over every step is completed or failed;
\* and the results handed on to aggregation are the results of the completed
\* steps, in plan order, whether the plan ended completed or failed.
C7_StepFailureIsLocal ==
  /\ \A i \in raised_steps : plan.steps[i].status = "failed"
  /\ StepsVisited =>
       /\ \A i \in 1..Len(plan.steps) : plan.steps[i].status \in {"completed", "failed"}
       /\ LET done == SelectSeq(plan.steps, LAMBDA s : s.status = "completed")
          IN results = [i \in 1..Len(done) |-> done[i].result]

\* an agent raised in one step, a later step completed, and the aggregator
\* was handed the results
C7_Witness ==
  /\ pc = "generate"
  /\ "aggregator" \in agents
  /\ results # <<>>
  /\ plan.status = "failed"
  /\ \E i \in raised_steps : \E j \in (i + 1)..Len(plan.steps) :
        plan.steps[j].status = "completed"

\* the output of the outer exception handler: confidence 0 and the message of
\* the exception in response and metadata
IsErrorOutput(o) ==
  /\ o.confidence = 0
  /\ \E m \in {"", "memory", "aggregation", "generation", "store"} :
        /\ <<"error", m>> \in o.metadata
        /\ o.response = <<"Error processing query: ", m>>

\* C8 as stated: whenever an exception was raised at any stage, step
\* execution included, process_query returns the error output.
C8_Original ==
  pc = "returned" => /\ output # NoOutput
                     /\ raised # {} => IsErrorOutput(output)

\* C8: process_query always returns an output; when an exception was raised
\* in the memory pre-check, in planner selection, in aggregation, in
\* generation or in the memory write-back the output has confidence 0 and
\* carries the error message in response and metadata; an exception raised by
\* the agent of a step does not by itself lead to the error output.
C8_ErrorOutput ==
  pc = "returned" =>
     /\ output # NoOutput
     /\ (raised \ {"step"}) # {} => IsErrorOutput(output)
     /\ (raised \ {"step"}) = {} => ~IsErrorOutput(output)

\* the write-back raised after the plan had completed
C8_Witness ==
  /\ pc = "returned"
  /\ raised = {"store"}
  /\ plan.status = "completed"
  /\ output.confidence = 0

C10_EmptyResults ==
  (agg_called /\ agg_results = <<>>) =>
     /\ agg_return.documents = <<>>
     /\ agg_return.confidence = 0
     /\ agg_return.error # ""

\* aggregate has returned from a call with an empty list
C10_Witness == agg_called /\ agg_results = <<>> /\ agg_return # NoneResult

\* the first 100 characters of a document's content
First100(d) == SubSeq(d.content, 1, Min2(100, Len(d.content)))

\* all the documents of a list of results
DocsOf(rs) == UNION {Range(rs[i].documents) : i \in 1..Len(rs)}

\* the results aggregate keeps: all of them, or the agg_max_agents most
\* confident ones when there are more
KeptResults ==
  IF Len(agg_results) > agg_max_agents
  THEN Take(SortDescByField(agg_results, "confidence"), agg_max_agents)
  ELSE agg_results

KeptOfType(t) == SelectSeq(KeptResults, LAMBDA r : r.agent_type = t)

\* a kept memory result has confidence >= 0.8
MemoryPrioritized == \E i \in 1..Len(KeptResults) :
                        /\ KeptResults[i].agent_type = "memory"
                        /\ KeptResults[i].confidence >= 800

\* the documents of the first most confident kept memory result
BestMemoryDocs ==
  LET ms == KeptOfType("memory")
      best == CHOOSE i \in 1..Len(ms) :
                /\ \A j \in 1..Len(ms) : ms[j].confidence <= ms[i].confidence
                /\ \A j \in 1..(i - 1) : ms[j].confidence < ms[i].confidence
  IN Range(ms[best].documents)

\* the ten most relevant documents of the kept results of type t (ties go to
\* the document that comes first)
TopTenOf(t) ==
  LET all == Concat([i \in 1..Len(KeptOfType(t)) |-> KeptOfType(t)[i].documents])
      ahead(i) == {j \in 1..Len(all) :
                     \/ all[j].relevance > all[i].relevance
                     \/ all[j].relevance = all[i].relevance /\ j < i}
  IN {all[i] : i \in {k \in 1..Len(all) : Cardinality(ahead(k)) < 10}}

\* the documents aggregate collects before it deduplicates
Collected ==
  IF MemoryPrioritized /\ BestMemoryDocs # {}
  THEN BestMemoryDocs
  ELSE TopTenOf("search") \cup TopTenOf("local_data") \cup TopTenOf("cloud")

\* ------------------------------------------------------ claims on aggregate
\* C11 as stated: for a non-empty list of results aggregate returns one
\* document for each input document that survives deduplication, plus the
\* summary in front when there is one, and nothing otherwise.
C11_Original ==
  (agg_called /\ agg_results # <<>>) =>
     LET n == Cardinality({First100(d) : d \in DocsOf(agg_results)})
     IN Len(agg_return.documents) = IF n > 0 THEN n + 1 ELSE 0

\* C11: for a non-empty list of results aggregate returns one document for
\* each collected document that survives deduplication, where the collected
\* documents are those of the best memory result on the memory-prioritized
\* path and otherwise, for each of search, local_data and cloud, the ten most
\* relevant documents of the results kept after limiting to max_agents; the
\* summary comes first when at least one document survives, and nothing is
\* returned otherwise.
C11_DocumentCount ==
  (agg_called /\ agg_results # <<>>) =>
     LET n == Cardinality({First100(d) : d \in Collected})
         docs == agg_return.documents
     IN /\ Len(docs) = IF n > 0 THEN n + 1 ELSE 0
        /\ n > 0 => /\ docs[1].source = "aggregator_summary"
                    /\ \A i \in 2..Len(docs) : docs[i] \in Collected
        /\ Len(docs) <= Cardinality({First100(d) : d \in DocsOf(agg_results)}) + 1

\* a source handed in eleven different documents and ten of them came back
\* behind the summary
C11_Witness ==
  /\ agg_called
  /\ Len(agg_results) = 1
  /\ Len(agg_results[1].documents) = 11
  /\ Len(agg_return.documents) = 11
  /\ agg_return.documents[1].source = "aggregator_summary"

\* C15 as stated: off the memory-prioritized path the confidence is the mean,
\* over the source types present in the results handed in, of the greatest
\* confidence of each type, and source_agents names exactly those types.
C15_Original ==
  (agg_called /\ agg_results # <<>>
     /\ ~\E i \in 1..Len(agg_results) : /\ agg_results[i].agent_type = "memory"
                                        /\ agg_results[i].confidence >= 800) =>
     LET present == {t \in {"search", "local_data", "cloud"} :
                       \E i \in 1..Len(agg_results) : agg_results[i].agent_type = t}
         best(t) == CHOOSE c \in {agg_results[i].confidence : i \in 1..Len(agg_results)} :
                      /\ \E i \in 1..Len(agg_results) :
                            agg_results[i].agent_type = t /\ agg_results[i].confidence = c
                      /\ \A i \in 1..Len(agg_results) :
                            agg_results[i].agent_type = t => agg_results[i].confidence <= c
     IN /\ Range(agg_return.source_agents) = present
        /\ present = {} => agg_return.confidence = 0
        /\ present # {} =>
             \E order \in [1..Cardinality(present) -> present] :
                /\ \A t \in present : \E k \in DOMAIN order : order[k] = t
                /\ agg_return.confidence * Cardinality(present)
                     = SeqSum([k \in DOMAIN order |-> best(order[k])])

\* C15: when no result kept after limiting to max_agents is a memory result
\* with confidence >= 0.8, the confidence is the mean, over the source types
\* search, local_data and cloud present among the kept results, of the
\* greatest confidence of each type (0 when none is present), and
\* source_agents names exactly those types, each once.
C15_MeanConfidence ==
  (agg_called /\ agg_results # <<>> /\ ~MemoryPrioritized) =>
     LET present == {t \in {"search", "local_data", "cloud"} : KeptOfType(t) # <<>>}
         best(t) == CHOOSE c \in {KeptOfType(t)[i].confidence : i \in 1..Len(KeptOfType(t))} :
                      \A i \in 1..Len(KeptOfType(t)) : KeptOfType(t)[i].confidence <= c
     IN /\ Range(agg_return.source_agents) = present
        /\ Len(agg_return.source_agents) = Cardinality(present)
        /\ present = {} => agg_return.confidence = 0
        /\ present # {} =>
             \E order \in [1..Cardinality(present) -> present] :
                /\ \A t \in present : \E k \in DOMAIN order : order[k] = t
                /\ agg_return.confidence * Cardinality(present)
                     = SeqSum([k \in DOMAIN order |-> best(order[k])])

\* two sources of different confidence were merged and the confidence lies
\* strictly between the two
C15_Witness ==
  /\ agg_called
  /\ ~MemoryPrioritized
  /\ Len(agg_return.source_agents) = 2
  /\ agg_return.confidence = 750
  /\ \E i, j \in 1..Len(agg_results) :
        agg_results[i].confidence = 600 /\ agg_results[j].confidence = 900

CharAt(c, k) == IF k <= Len(c) THEN c[k] ELSE ""

\* C13 as stated: two documents whose contents differ after the first 100
\* characters are both kept.
C13_Original ==
  dd_called =>
     \A i, j \in 1..Len(dd_documents) :
        (\E k \in 101..102 :
            CharAt(dd_documents[i].content, k) # CharAt(dd_documents[j].content, k))
          => /\ dd_documents[i] \in Range(dd_return)
             /\ dd_documents[j] \in Range(dd_return)

\* C13: two documents whose contents differ within the first 100 characters
\* are not collapsed into one another: each of them is kept unless an earlier
\* document agrees with it on the first 100 characters; of the documents that
\* agree on the first 100 characters and differ only after them, only the
\* first is kept.
C13_DifferWithinSignature ==
  dd_called =>
     /\ \A i, j \in 1..Len(dd_documents) :
          (/\ First100(dd_documents[i]) # First100(dd_documents[j])
           /\ \A h \in 1..(i - 1) : First100(dd_documents[h]) # First100(dd_documents[i])
           /\ \A h \in 1..(j - 1) : First100(dd_documents[h]) # First100(dd_documents[j]))
            => \E a, b \in 1..Len(dd_return) :
                  a # b /\ dd_return[a] = dd_documents[i] /\ dd_return[b] = dd_documents[j]
     /\ \A i \in 1..Len(dd_documents) :
          Cardinality({a \in 1..Len(dd_return) :
                         First100(dd_return[a]) = First100(dd_documents[i])}) = 1

\* two documents that differ only in their 100th character both came back
C13_Witness ==
  /\ dd_called
  /\ dd_documents = <<Doc(8), Doc(9)>>
  /\ dd_return = <<Doc(8), Doc(9)>>

\* C14: a document whose content is the whole content of an earlier document
\* followed by more text, both shorter than 100 characters, is dropped as a
\* duplicate of the earlier one.
C14_PrefixIsDuplicate ==
  dd_called =>
     \A i, j \in 1..Len(dd_documents) :
        (/\ i < j
         /\ Len(dd_documents[i].content) < Len(dd_documents[j].content)
         /\ Len(dd_documents[j].content) < 100
         /\ SubSeq(dd_documents[j].content, 1, Len(dd_documents[i].content))
              = dd_documents[i].content)
          => dd_documents[j] \notin Range(dd_return)

\* ----------------------------------------------------- claims on planners
\* the agent types of the steps of a plan, in order
TypesOf(p) == [i \in 1..Len(p.steps) |-> p.steps[i].agent_type]

\* the last adapt_plan of the ReAct planner took the "search returned no
\* results" branch
SearchCameBackEmpty ==
  /\ ~(results_of_type(pl_results, "memory") # <<>>
        /\ results_of_type(pl_results, "memory")[1].confidence >= 800)
  /\ results_of_type(pl_results, "search") # <<>>
  /\ results_of_type(pl_results, "search")[1].documents = <<>>

\* C16: the plan ReActPlanner.create_plan returns has at most max_steps
\* steps, and so has the plan ReActPlanner.adapt_plan returns for it, in
\* every branch.
C16_ReactMaxSteps ==
  (pl_planner = "react" /\ pl_op # "idle") => Len(pl_plan.steps) <= pl_max_steps

\* adapt_plan inserted steps behind an empty search into a plan that was
\* already max_steps long, and cut the plan back to max_steps
C16_Witness ==
  /\ pl_planner = "react"
  /\ pl_op = "adapt"
  /\ SearchCameBackEmpty
  /\ Len(pl_input.steps) = pl_max_steps
  /\ Len(pl_plan.steps) = pl_max_steps
  /\ TypesOf(pl_plan) # TypesOf(pl_input)

\* C17: every plan ChainOfThoughtPlanner.create_plan or adapt_plan returns,
\* also after repeated adapt_plan calls on its own output, has at most
\* max_depth steps.
C17_CotMaxDepth ==
  (pl_planner = "cot" /\ pl_op # "idle") => Len(pl_plan.steps) <= pl_max_steps

\* the steps of a plan that are completed or in progress, in order
StartedSteps(p) == SelectSeq(p.steps, LAMBDA s : s.status \in {"completed", "in_progress"})

\* a is b with some elements left out
RECURSIVE IsSubsequence(_, _)
IsSubsequence(a, b) ==
  IF a = <<>> THEN TRUE
  ELSE IF b = <<>> THEN FALSE
  ELSE IF Head(a) = Head(b) THEN IsSubsequence(Tail(a), Tail(b))
  ELSE IsSubsequence(a, Tail(b))

\* C18: for both planners and in every branch of adapt_plan, each step of
\* the input plan that is completed or in progress is in the returned plan
\* with the same agent type, status and result, in the same relative order.
C18_StartedStepsKept ==
  pl_op = "adapt" => IsSubsequence(StartedSteps(pl_input), pl_plan.steps)

\* C19: whenever a generative agent is available, the plan create_plan
\* returns (either planner, any query text, any max_steps >= 1) ends with a
\* generative step; truncation to max_steps preserves that step.
C19_EndsWithGenerative ==
  (pl_op = "create" /\ "generative" \in pl_agents /\ pl_max_steps >= 1)
    => /\ pl_plan.steps # <<>>
       /\ pl_plan.steps[Len(pl_plan.steps)].agent_type = "generative"

\* C20: every plan create_plan returns, of either planner, for any query and
\* any set of available agents, has no step whose agent type is unavailable.
C20_CreatedPlanIsValid ==
  pl_op = "create" => \A i \in 1..Len(pl_plan.steps) : pl_plan.steps[i].agent_type \in pl_agents

\* a Chain-of-Thought plan for a query that needs data, created without a
\* local-data agent, and a ReAct plan likewise
C20_Witness ==
  /\ pl_op = "create"
  /\ "local_data" \notin pl_agents
  /\ pl_plan.steps # <<>>
  /\ \/ pl_planner = "cot" /\ "data" \in Range(analyze_query(pl_text))
     \/ pl_planner = "react" /\ query_needs_local_data(pl_text)

\* ------------------------------------------ claims on the memory write-back
\* C24 as stated: whenever process_query ran a plan and obtained a final
\* result, the result was stored in every configured memory before the return.
C24_Original ==
  (pc = "returned" /\ plan # NoPlan /\ final_result # NoneResult) => stored = memories

\* C24: when process_query ran a plan and obtained a final result, store was
\* called on every configured memory, in order, if the confidence of the
\* result is at least 0.5 and no store raised; on no memory if the confidence
\* is below 0.5; and on the memories before the one whose store raised
\* otherwise.
C24_WriteBack ==
  (pc = "returned" /\ plan # NoPlan /\ final_result # NoneResult) =>
     /\ final_result.confidence < StoreThreshold => stored = <<>>
     /\ (final_result.confidence >= StoreThreshold /\ "store" \notin raised)
          => stored = memories
     /\ "store" \in raised
          => /\ final_result.confidence >= StoreThreshold
             /\ Len(stored) < Len(memories)
             /\ stored = Take(memories, Len(stored))

\* a final result of confidence 0.9 stored in both memories
C24_Witness ==
  /\ pc = "returned"
  /\ plan # NoPlan
  /\ final_result.confidence >= StoreThreshold
  /\ Len(memories) = 2
  /\ stored = memories

\* ------------------------------------------- claims on the memory priority
\* C25: if the results aggregate keeps contain a memory result with
\* confidence >= 0.8, aggregate returns only documents of the best such
\* result (behind the summary), none of another source, and the confidence
\* of that memory result.
C25_MemoryOnly ==
  (agg_called /\ MemoryPrioritized) =>
     /\ agg_return.confidence = FirstMaxByField(KeptOfType("memory"), "confidence").confidence
     /\ \A i \in 1..Len(agg_return.documents) :
          \/ agg_return.documents[i].is_summary
          \/ agg_return.documents[i] \in BestMemoryDocs

\* ------------------------------------------- claims on ShortTermMemory, II
\* the documents an entry cites
Cited(e) == Range(e.document_ids)

\* C29: remove(id) returns true exactly when id was held; the other entries
\* stay as they were and in their order; each document the removed entry
\* cited is in the document map afterwards if and only if a remaining entry
\* cites it, every other document stays; remove of an id that is not held
\* changes neither the entries nor the documents.
C29_Remove ==
  [][ \A id \in CallerIds : (lastCall'.op = "remove" /\ lastCall'.memory_id = id) =>
        /\ lastCall'.removed = (id \in HeldIds(memory))
        /\ id \in HeldIds(memory) =>
             /\ memory' = SeqWithout(memory, id)
             /\ \A d \in Cited(EntryOf(memory, id)) :
                  d \in document_store' <=> \E e \in Range(memory') : d \in Cited(e)
             /\ document_store' \ Cited(EntryOf(memory, id))
                  = document_store \ Cited(EntryOf(memory, id))
        /\ id \notin HeldIds(memory) =>
             /\ memory' = memory
             /\ document_store' = document_store
    ]_vars

\* an entry was removed and the document it cited stayed, another entry
\* citing it
C29_Witness ==
  /\ lastCall.op = "remove"
  /\ lastCall.removed
  /\ document_store # {}
  /\ \E e \in Range(memory) : Cited(e) # {}

\* C30: with capacity <= 0 store returns normally and leaves the memory
\* without entries and without documents, and a following retrieve of the
\* same query returns nothing.
C30_NothingStored ==
  capacity <= 0 =>
     /\ lastCall.op = "store" =>
          /\ ~lastCall.raised
          /\ memory = <<>>
          /\ document_store = {}
     /\ (lastCall.op = "retrieve" /\ lastCall.prev.stored
           /\ lastCall.prev.query = lastCall.query) => lastCall.result = NoResult

C21_ShortTermFirst ==
  [][lt_call'.short_term >= ShortTermSufficient
       => /\ ltm' = ltm
          /\ \E r \in STMAnswers :
               r.confidence = lt_call'.short_term /\ lt_call'.result = Returned(r)]_vars

\* short-term memory has answered a process call with confidence 0.9 while
\* long-term memory held an entry
C21_Witness == lt_call.short_term = 900 /\ ltm.entries # <<>>

\* the ids of the queries table
SeenIds(db) == {row.id : row \in db.queries}

\* every stored query that matches the text best has an entry whose
\* documents resolve
BestHaveDocuments(db, text) ==
  \A best \in find_similar_queries(db, text) :
     /\ best_entries(db, best.id) # {}
     /\ \A e \in best_entries(db, best.id) : get_documents_for_memory(db, e.id) # <<>>

C23_ErrorsNotPropagated ==
  lt_call.failed => (~lt_call.raised /\ lt_call.result = NoReturn /\ ~lt_call.removed)

\* a call has failed after the tables had taken a query
C23_Witness == lt_call.failed /\ ltm.queries # {}

\* C27: every result ShortTermMemory.retrieve returns has at least one document
C27_RetrievedHasDocuments ==
  (lastCall.op = "retrieve" /\ lastCall.result # NoResult)
    => lastCall.result.documents # <<>>

\* the access_count of every entry of the entries table
AccessCounts(db) == {<<e.id, e.access_count>> : e \in Range(db.entries)}

\* C28: a LongTermMemory.retrieve that returns nothing leaves the access_count
\* of every entry as it was
C28_AccessOnlyOnHit ==
  [][\A q \in LTQueries, k \in 0..5 :
       (LTRetrieve(q, k) /\ lt_call'.result = NoReturn)
         => AccessCounts(ltm') = AccessCounts(ltm)]_vars

\* ------------------------------------------------- claims on adapt_plan
\* some memory result among the results has confidence >= 0.8
MemoryHitIn(rs) ==
  \E i \in 1..Len(rs) : rs[i].agent_type = "memory" /\ rs[i].confidence >= 800

\* the steps of p that are pending and neither search, local-data nor cloud
\* steps, in order, as new steps
PendingOtherSteps(p) ==
  LET kept == SelectSeq(p.steps, LAMBDA s :
                s.status = "pending" /\ s.agent_type \in {"memory", "aggregator", "generative"})
  IN [i \in 1..Len(kept) |-> PlanStep(kept[i].agent_type)]

EmptySearchIn(rs) ==
  \E i \in 1..Len(rs) : rs[i].agent_type = "search" /\ rs[i].documents = <<>>

\* the position of the first step of type t in the plan, 0 when it has none
StepPos(p, t) ==
  IF \E i \in 1..Len(p.steps) : p.steps[i].agent_type = t
  THEN CHOOSE i \in 1..Len(p.steps) :
         /\ p.steps[i].agent_type = t
         /\ \A j \in 1..(i - 1) : p.steps[j].agent_type # t
  ELSE 0

\* an agent of type t is available and the plan passed to adapt_plan has no
\* step of that type
ToInsert(t) == t \in pl_agents /\ StepPos(pl_input, t) = 0

\* the returned plan has the local-data and cloud steps that were to be
\* inserted right behind the search step, the cloud step behind the
\* local-data step if the plan has one, and its other steps are steps of the
\* plan passed in, in their order
InsertedBehindSearch ==
  /\ ToInsert("local_data")
       => /\ StepPos(pl_plan, "search") > 0
          /\ StepPos(pl_plan, "local_data") = StepPos(pl_plan, "search") + 1
  /\ ToInsert("cloud")
       => /\ StepPos(pl_plan, "search") > 0
          /\ StepPos(pl_plan, "cloud") =
               (IF StepPos(pl_plan, "local_data") > 0
                THEN StepPos(pl_plan, "local_data") ELSE StepPos(pl_plan, "search")) + 1
  /\ IsSubsequence(
       SelectSeq(pl_plan.steps, LAMBDA s : ~ToInsert(s.agent_type)),
       pl_input.steps)

KeptThenSynthesis(p, statuses) ==
     SelectSeq(p.steps, LAMBDA s : s.status \in statuses)
  \o (IF "aggregator" \in pl_agents THEN <<PlanStep("aggregator")>> ELSE <<>>)
  \o (IF "generative" \in pl_agents THEN <<PlanStep("generative")>> ELSE <<>>)

\* no step of the plan is a pending search, local-data, cloud or memory step
NoPendingGathering(p) ==
  \A i \in 1..Len(p.steps) :
    p.steps[i].status = "pending"
      => p.steps[i].agent_type \notin {"memory", "search", "local_data", "cloud"}

GatheringSteps(p) ==
  Cardinality({i \in 1..Len(p.steps) :
                 p.steps[i].agent_type \in {"search", "local_data", "cloud"}})

\* C34: a plan returned by ReActPlanner.create_plan has an aggregator step
\* only if it has more than one search, local-data or cloud step
C34_AggregatorNeedsTwoSources ==
  (pl_op = "create" /\ pl_planner = "react" /\ StepPos(pl_plan, "aggregator") > 0)
    => GatheringSteps(pl_plan) > 1

\* C35: a plan returned by ReActPlanner.create_plan has a search step only
\* if a search agent is available and the query text contains a search
\* keyword, a local-data step only if a local-data agent is available and
\* the text contains a local-data keyword, and a cloud step only if a cloud
\* agent is available and the text contains a cloud keyword
C35_StepsFollowKeywords ==
  (pl_op = "create" /\ pl_planner = "react")
    => /\ StepPos(pl_plan, "search") > 0
            => "search" \in pl_agents /\ ContainsAny(lower(pl_text), search_keywords)
       /\ StepPos(pl_plan, "local_data") > 0
            => "local_data" \in pl_agents /\ ContainsAny(lower(pl_text), local_data_keywords)
       /\ StepPos(pl_plan, "cloud") > 0
            => "cloud" \in pl_agents /\ ContainsAny(lower(pl_text), cloud_keywords)

\* --------------------------------------- claims on the memory pre-check
\* the memory pre-check of process_query returned a result of confidence
\* >= 0.8
PreCheckHit == memory_result # NoneResult /\ memory_result.confidence >= MemoryHit

\* C36: when the memory pre-check returns a result of confidence >= 0.8,
\* process_query returns at once: no plan is created, no step is run, nothing
\* is aggregated or generated, nothing is stored in a memory tier, and the
\* output has no plan id, memory_hit true and the documents and confidence of
\* the memory result; a plan exists only when the pre-check had no result or
\* one of lower confidence
C36_MemoryHitShortCircuit ==
  /\ PreCheckHit
       => /\ pc = "returned"
          /\ plan = NoPlan /\ plan_log = <<>> /\ step = 0
          /\ results = <<>> /\ raised_steps = {}
          /\ aggregated_result = NoneResult /\ final_result = NoneResult
          /\ stored = <<>>
          /\ output.plan_id = None
          /\ <<"memory_hit", "True">> \in output.metadata
          /\ output.documents = memory_result.documents
          /\ output.confidence = memory_result.confidence
  /\ plan # NoPlan
       => (memory_result = NoneResult \/ memory_result.confidence < MemoryHit)

\* process_query has returned the documents of a memory hit while planners
\* and memory tiers were configured
C36_Witness ==
  /\ PreCheckHit
  /\ pc = "returned"
  /\ output.documents # <<>>
  /\ planners # <<>>
  /\ memories # <<>>
  /\ agents # {"memory"}

\* --------------------------------------- claims on MemoryAgent.process, II
\* C38: one MemoryAgent.process call raises the access_count of each entry
\* of the long-term memory by at most 1
C38_OneAccessPerProcess ==
  [][\A q \in LTQueries, has_short_term \in BOOLEAN, short_term_result \in STMAnswers :
       Process(q, has_short_term, short_term_result)
         => \A e \in Range(ltm.entries), f \in Range(ltm'.entries) :
              f.id = e.id => f.access_count <= e.access_count + 1]_vars

BothReturned == \A t \in Threads : callers[t].pc = "returned"

\* C37: once two interleaved store calls, or a store and a remove, on one
\* ShortTermMemory have both returned, every document id a held entry lists
\* is a key of the document map and the store holds at most capacity entries
C37_SafeUnderInterleaving ==
  BothReturned
    => /\ \A e \in Range(memory) : Cited(e) \subseteq document_store
       /\ Len(memory) <= capacity
====
